---- MODULE Spec2Model ----
(***************************************************************************)
(* Midway: the authoritative server of a multiplayer naval simulation.     *)
(*                                                                         *)
(* Threads: the acceptor (process_joining), one reader per connection      *)
(* (process_client), one writer per admitted connection (ClientData::new)  *)
(* and the engine (main).  They communicate through mpsc channels only:    *)
(* joinq (acceptor -> engine), inbox[c] (reader -> engine) and outbox[c]   *)
(* (engine -> writer).                                                     *)
(*                                                                         *)
(* Numbers.  The code computes in f32; the model computes in fixed point:  *)
(*   health, mass, damage   in 1/1200 hit point         (Hp)               *)
(*   time, cooldowns        in 1/120000 second          (Sec)              *)
(*   power, helm, velocity  in 1/4 of their unit        (Q)                *)
(*   distances              in metres                                      *)
(* Random draws (thread_rng) are nondeterministic choices from small       *)
(* sets of representatives of the drawn range.                             *)
(***************************************************************************)
EXTENDS Integers, Sequences, FiniteSets, TLC

VARIABLES
  backlog,         \* listener.incoming(): connections not yet accepted, in order
  hello,           \* hello[c]: where client c's connection stands, and its first line
  joinq,           \* channel acceptor -> engine: <<[id, name], ...>>
  reader,          \* reader[c]: "none" | "running" | "eof" | "failed" | "closed"
  inbox,           \* inbox[c]: channel reader -> engine, of ClientMessage
  writer,          \* writer[c]: "none" | "running" | "ended"
  outbox,          \* outbox[c]: channel engine -> writer, of messages
  socket,          \* socket[c]: first MaxSock lines written to c's socket, with their writer
  connections,     \* HashMap name -> [id, ship]
  kraken,          \* Option<Ship>
  kraken_cooldown, \* f32 seconds, in Sec
  pc,              \* engine position
  ticks,           \* ticks begun so far
  todo,            \* names the ship loop (main.rs:326) has still to visit
  sunk,            \* Vec of names to announce as sunk this tick
  splashes,        \* number of splashes queued this tick
  wakes,           \* number of wakes queued this tick
  kraken_targets,  \* Vec of names in the boss's range this tick
  spent            \* how much of the bounds MaxLines, MaxMines, MaxSpawns the run has used

vars == <<backlog, hello, joinq, reader, inbox, writer, outbox, socket,
          connections, kraken, kraken_cooldown, pc, ticks, todo, sunk, splashes,
          wakes, kraken_targets, spent>>

netvars == <<backlog, hello, joinq, reader, inbox, writer, outbox, socket>>
tickvars == <<todo, sunk, splashes, wakes, kraken_targets>>

----------------------------------------------------------------------------
(* Bounds of the model *)

MaxClients == 2
MaxTicks == 2
\* commands the clients send in a run, mines that go off, bosses that spawn
MaxLines == 2
MaxMines == 1
MaxSpawns == 2
\* ticks a run that waits for a respawn goes on after RESPAWN_COOLDOWN
ExtraTicks == 3
MaxSock == 2
MaxBacklog == 0

\* Clients are numbered in the order they connect.  Names matter up to equality
\* only: the c-th client names itself with one of the first c names.
Clients == 1..MaxClients
NameSeq == <<"a", "b", "c">>
Names == {NameSeq[i] : i \in Clients}

----------------------------------------------------------------------------
(* Program constants *)

TIME_ACCELERATION_FACTOR == 4
TPS == 60
RESPAWN_COOLDOWN == 120
KRAKEN_NAME == "Kraken"

Hp(x) == x * 1200
Sec(x) == x * 120000
Q(x) == x * 4

\* main.rs:260  delta_t = TIME_ACCELERATION_FACTOR / TPS as f32
delta_t == Sec(TIME_ACCELERATION_FACTOR) \div TPS

\* main.rs:24-34  MAP_RADIUS = Some((2000.0, BorderType::Ocean(OceanData {...})))
MAP_RADIUS == [radius |-> 2000, border |-> "Ocean",
               kraken_spawn_chance_pct |-> 1, mine_damage |-> Hp(2000),
               scale |-> 500, intensity |-> 18, dps |-> Hp(5)]

Abs(x) == IF x < 0 THEN -x ELSE x
Min(x, y) == IF x < y THEN x ELSE y
Max(x, y) == IF x < y THEN y ELSE x
\* f32 division of a by b (b > 0), rounded toward zero
Quot(a, b) == IF a >= 0 THEN a \div b ELSE -((-a) \div b)
\* f32::sqrt of n / 10000, as a multiple of 1/100
Sqrt100(n) == CHOOSE k \in 0..1000 : k * k <= n /\ n < (k + 1) * (k + 1)

----------------------------------------------------------------------------
(* stats.rs: the ship catalogue.  Of the eleven classes the model draws    *)
(* from ShipTypes: one surface class and the submersible one.              *)

ShipTypes == {"BattleCruiser", "UBoat"}

\* stats.rs:14-26  Variable::get_value; a Variable is <<surface, submerged>>
get_value(variable, submerged) == IF submerged THEN variable[2] ELSE variable[1]

\* stats.rs:70-104  ShipStats::new
ShipStats_new(class, texture, mass, power, gun_damage, gun_range, gun_reload_time, actions) ==
  [class |-> class, texture |-> texture, mass |-> <<mass, mass>>, health |-> mass,
   power |-> <<power, power>>, gun_damage |-> gun_damage, gun_range |-> gun_range,
   gun_reload_time |-> gun_reload_time, cooldown |-> 0, actions |-> actions]

\* stats.rs:106-143  ShipStats::new_submersible
ShipStats_new_submersible(class, texture, mass_surface, mass_submerged, power_surface, power_submerged, gun_damage, gun_range, gun_reload_time, actions) ==
  [class |-> class, texture |-> texture, mass |-> <<mass_surface, mass_submerged>>,
   health |-> mass_surface, power |-> <<power_surface, power_submerged>>,
   gun_damage |-> gun_damage, gun_range |-> gun_range,
   gun_reload_time |-> gun_reload_time, cooldown |-> 0, actions |-> actions]

\* stats.rs:151-333  get_stats; the propulsion power is in tenths
get_stats(type) ==
  IF type = "BattleCruiser"
  THEN ShipStats_new("BattleCruiser", 5, Hp(27636), 560000, Hp(3375), 30680,
                     <<Sec(4), Sec(6)>>, <<>>)
  ELSE ShipStats_new_submersible("UBoat", 11, Hp(769), Hp(871), 16000, 3733,
                                 Hp(429) \div 10, 11950, <<Sec(3), Sec(5)>>,
                                 <<"Submerge">>)

----------------------------------------------------------------------------
(* main.rs: Ship *)

\* Representatives of the distance from the origin (coords): within the border,
\* where ships spawn, just beyond it, and beyond radius + scale.
Dists == <<500, 2010, 3000>>
\* velocity is kept within -MaxVel..MaxVel quarters of a m/s
MaxVel == 2

\* Representatives of rng.gen_range(0.5..1.5) (gun damage roll), as <<num, den>>
GunRolls == {<<7, 5>>}
\* Representatives of rng.gen_range(0.2..1.0) (mine damage roll)
MineRolls == {<<1, 2>>}

\* main.rs:77-96  Ship::new
Ship_new(type) ==
  [coords |-> Dists[1], velocity |-> 0, helm |-> 0, power |-> 0,
   stats |-> get_stats(type), sunk |-> FALSE, submerged |-> FALSE, smoke |-> FALSE,
   respawn_cooldown |-> RESPAWN_COOLDOWN]

\* main.rs:212-214
current_power(ship) == ship.power * get_value(ship.stats.power, ship.submerged)
\* main.rs:216-218
current_mass(ship) == get_value(ship.stats.mass, ship.submerged)
\* main.rs:139-141
distance_from_origin(ship) == ship.coords

\* A variant of Ship::damage that decides on the health before the hit
damage_before(ship, amount) ==
  [ship EXCEPT !.stats.health = @ - amount,
               !.sunk = IF ship.stats.health <= 0 THEN TRUE ELSE ship.sunk]

\* A variant of Ship::damage that lets a ship float on no health at all
damage_strict(ship, amount) ==
  LET health == ship.stats.health - amount
  IN  [ship EXCEPT !.stats.health = health,
                   !.sunk = IF health < 0 THEN TRUE ELSE ship.sunk]

\* main.rs:151-157  Ship::damage; the returned bool is the sunk flag of the result
damage(ship, amount) ==
  LET health == ship.stats.health - amount
  IN  [ship EXCEPT !.stats.health = health,
                   !.sunk = IF health <= 0 THEN TRUE ELSE ship.sunk]

\* main.rs:98-131  Ship::step.  The thrust/drag balance is kept by its sign only:
\* under power the velocity gains a quarter, up to the terminal velocity MaxVel,
\* without power drag takes one; a moving ship stays at its representative
\* distance or reaches a neighbouring one.
StepVelocities(ship) ==
  LET v == ship.velocity
      p == current_power(ship)
  IN  IF p > 0 THEN {Min(v + 1, MaxVel)}
      ELSE IF p < 0 THEN {Max(v - 1, -MaxVel)}
      ELSE IF v > 0 THEN {v - 1}
      ELSE IF v < 0 THEN {v + 1}
      ELSE {0}

DistIndex(d) == CHOOSE i \in 1..Len(Dists) : Dists[i] = d

StepCoords(ship, velocity) ==
  LET i == DistIndex(ship.coords)
  IN  IF velocity = 0 THEN {ship.coords}
      ELSE {Dists[j] : j \in {k \in {i - 1, i, i + 1} : k >= 1 /\ k <= Len(Dists)}}

step(ship, velocity, coords) ==
  [ship EXCEPT !.stats.cooldown = @ - delta_t, !.velocity = velocity, !.coords = coords]

\* A variant of Ship::shoot that does not look at the cooldown
shoot_anytime(attacker, target, hit, roll, reload) ==
  LET dmg == (attacker.stats.gun_damage * roll[1]) \div roll[2]
      fired == [attacker EXCEPT !.stats.cooldown = reload]
      struck == damage(target, dmg)
  IN  IF hit
      THEN [attacker |-> fired, target |-> struck,
            state |-> IF struck.sunk THEN "Sunk" ELSE "Hit"]
      ELSE [attacker |-> fired, target |-> target, state |-> "Miss"]

\* A variant of Ship::shoot whose misses hurt the target all the same
shoot_graze(attacker, target, hit, roll, reload) ==
  IF attacker.stats.cooldown <= 0
  THEN LET dmg == (attacker.stats.gun_damage * roll[1]) \div roll[2]
           fired == [attacker EXCEPT !.stats.cooldown = reload]
           struck == damage(target, dmg)
       IN  IF hit
           THEN [attacker |-> fired, target |-> struck,
                 state |-> IF struck.sunk THEN "Sunk" ELSE "Hit"]
           ELSE [attacker |-> fired, target |-> struck, state |-> "Miss"]
  ELSE [attacker |-> attacker, target |-> target, state |-> "NotFired"]

\* main.rs:185-210  Ship::shoot.  hit is target.is_hit(coords), roll the damage
\* draw and reload the draw from gun_reload_time (its representative: the
\* start of the range).
ReloadDraws(stats) == {stats.gun_reload_time[1]}

shoot(attacker, target, hit, roll, reload) ==
  IF attacker.stats.cooldown <= 0
  THEN LET dmg == (attacker.stats.gun_damage * roll[1]) \div roll[2]
           fired == [attacker EXCEPT !.stats.cooldown = reload]
           struck == damage(target, dmg)
       IN  IF hit
           THEN [attacker |-> fired, target |-> struck,
                 state |-> IF struck.sunk THEN "Sunk" ELSE "Hit"]
           ELSE [attacker |-> fired, target |-> target, state |-> "Miss"]
  ELSE [attacker |-> attacker, target |-> target, state |-> "NotFired"]

----------------------------------------------------------------------------
(* client.rs: the connection layer *)

\* What a client may send as the first line of its connection.  name = "" is a
\* line without a second word.
HelloLines(c) ==
  {[word |-> "ship", name |-> n] : n \in {NameSeq[i] : i \in 1..c} \cup {""}}
    \cup {[word |-> "sail", name |-> ""]}
NoLine == [word |-> "", name |-> ""]

\* Later lines.  A token is [ok |-> whether it parses as a number, v |-> the number].
Num(v) == [ok |-> TRUE, v |-> v]
BadToken == [ok |-> FALSE, v |-> 0]
SailInputs == {<<Q(1), -Q(1)>>, <<Q(4), Q(3)>>}
ReaderLines ==
  {[word |-> "sail", args |-> <<Num(i[1]), Num(i[2])>>] : i \in SailInputs}
    \cup {[word |-> "sail", args |-> <<Num(Q(1))>>],
          [word |-> "sail", args |-> <<BadToken, Num(0)>>],
          [word |-> "anchor", args |-> <<>>],
          [word |-> "smoke", args |-> <<>>],
          [word |-> "weapon", args |-> <<Num(0)>>],
          [word |-> "weapon", args |-> <<Num(1)>>],
          [word |-> "action", args |-> <<Num(1)>>],
          [word |-> "", args |-> <<>>]}

\* words.next().and_then(|w| w.parse().ok()) on the i-th argument
Parsed(line, i) == i <= Len(line.args) /\ line.args[i].ok

Ids == {connections[n].id : n \in DOMAIN connections}
Queued == {joinq[i].id : i \in 1..Len(joinq)}
\* The other threads run while the engine does (the process ends when main
\* returns or panics).  From the drain to the start of the next tick the engine
\* reads no channel and only appends to the outbound ones, so its steps commute
\* with theirs: their steps are taken where the engine reads, that is while it
\* waits for the first session and while it admits sessions.
Alive == pc \in {"recv", "join"}
\* the Receiver<ClientMessage> of c's inbound channel still exists
RxLive(c) == c \in Ids \cup Queued
\* the Sender<String> of c's outbound channel still exists
TxLive(c) == c \in Ids

\* A client connects: listener.incoming() will yield its stream in arrival order.
ClientConnect(c) ==
  /\ Alive
  /\ hello[c].st = "idle"
  /\ \A d \in Clients : d < c => hello[d].st # "idle"
  /\ hello' = [hello EXCEPT ![c] = [st |-> "connected", line |-> NoLine]]
  /\ backlog' = Append(backlog, c)
  /\ UNCHANGED <<spent, joinq, reader, inbox, writer, outbox, socket, connections, kraken,
                 kraken_cooldown, pc, ticks, tickvars>>

\* A connected client sends its first line, or closes without one.
ClientHello(c) ==
  /\ Alive
  /\ hello[c].st = "connected"
  /\ \/ \E line \in HelloLines(c) : hello' = [hello EXCEPT ![c] = [st |-> "sent", line |-> line]]
     \/ hello' = [hello EXCEPT ![c] = [st |-> "eof", line |-> NoLine]]
  /\ UNCHANGED <<spent, backlog, joinq, reader, inbox, writer, outbox, socket, connections,
                 kraken, kraken_cooldown, pc, ticks, tickvars>>

\* A variant of the first-line check that gives a nameless `ship` line a name
HelloName_lax(h) ==
  IF h.st = "sent" /\ h.line.word = "ship"
  THEN IF h.line.name = "" THEN NameSeq[1] ELSE h.line.name
  ELSE ""

\* client.rs:46-66  the name the first line gives, "" when the line is refused
HelloName(h) ==
  IF h.st = "sent" /\ h.line.word = "ship" THEN h.line.name ELSE ""

\* client.rs:38-75  process_joining, one iteration of its loop: read_line blocks
\* until the head connection has sent a line or closed.  running: the points of
\* the engine's loop at which the iteration is taken.
AcceptWhen(running) ==
  /\ running
  /\ backlog # <<>>
  /\ LET c == Head(backlog)
         name == HelloName(hello[c])
     IN  /\ hello[c].st \in {"sent", "eof"}
         /\ backlog' = Tail(backlog)
         /\ IF name = ""
            THEN /\ hello' = [hello EXCEPT ![c] = [st |-> "dropped", line |-> NoLine]]
                 /\ UNCHANGED <<reader, joinq>>
            ELSE /\ hello' = [hello EXCEPT ![c] = [st |-> "accepted", line |-> NoLine]]
                 /\ reader' = [reader EXCEPT ![c] = "running"]
                 /\ joinq' = Append(joinq, [id |-> c, name |-> name])
  /\ UNCHANGED <<spent, inbox, writer, outbox, socket, connections, kraken, kraken_cooldown,
                 pc, ticks, tickvars>>

Accept == AcceptWhen(Alive)

\* client.rs:84-99  the command a line parses to; kind "skip" is a logged line,
\* kind "fail" a `?` that returns from process_client.
ParseLine(line) ==
  IF line.word = "sail"
  THEN IF Parsed(line, 1) /\ Parsed(line, 2)
       THEN [kind |-> "Sail", a |-> line.args[1].v, b |-> line.args[2].v]
       ELSE [kind |-> "fail", a |-> 0, b |-> 0]
  ELSE IF line.word = "anchor" THEN [kind |-> "Anchor", a |-> 0, b |-> 0]
  ELSE IF line.word = "smoke" THEN [kind |-> "Smoke", a |-> 0, b |-> 0]
  ELSE IF line.word = "weapon"
  THEN IF Parsed(line, 1)
       THEN [kind |-> "Weapon", a |-> line.args[1].v, b |-> 0]
       ELSE [kind |-> "fail", a |-> 0, b |-> 0]
  ELSE [kind |-> "skip", a |-> 0, b |-> 0]

\* client.rs:78-103  process_client, one iteration of its loop on a line read
ReaderLine(c) ==
  /\ Alive
  /\ reader[c] = "running"
  /\ \E line \in ReaderLines :
       LET m == ParseLine(line)
       IN  IF m.kind = "skip" THEN UNCHANGED <<reader, inbox, spent>>
           ELSE IF m.kind = "fail"
           THEN reader' = [reader EXCEPT ![c] = "failed"] /\ UNCHANGED <<inbox, spent>>
           ELSE IF ~RxLive(c)
           THEN reader' = [reader EXCEPT ![c] = "closed"] /\ UNCHANGED <<inbox, spent>>
           ELSE /\ spent.lines < MaxLines
                /\ inbox' = [inbox EXCEPT ![c] = Append(@, m)]
                /\ spent' = [spent EXCEPT !.lines = @ + 1]
                /\ UNCHANGED reader
  /\ UNCHANGED <<backlog, hello, joinq, writer, outbox, socket, connections, kraken,
                 kraken_cooldown, pc, ticks, tickvars>>

\* client.rs:80-83  read_line returns 0 bytes (or an error): the thread ends
ReaderEof(c) ==
  /\ Alive
  /\ reader[c] = "running"
  /\ reader' = [reader EXCEPT ![c] = "eof"]
  /\ UNCHANGED <<spent, backlog, hello, joinq, inbox, writer, outbox, socket, connections,
                 kraken, kraken_cooldown, pc, ticks, tickvars>>

\* client.rs:25-29  the writer thread wakes and writes the messages queued, in
\* order, until it blocks on its channel again
WriterWrite(c) ==
  /\ Alive
  /\ writer[c] = "running"
  /\ outbox[c] # <<>>
  /\ outbox' = [outbox EXCEPT ![c] = <<>>]
  /\ socket' = [socket EXCEPT ![c] =
                  SubSeq(@ \o [i \in 1..Len(outbox[c]) |-> [msg |-> outbox[c][i], by |-> "writer"]],
                         1, Min(MaxSock, Len(@) + Len(outbox[c])))]
  /\ UNCHANGED <<spent, backlog, hello, joinq, reader, inbox, writer, connections, kraken,
                 kraken_cooldown, pc, ticks, tickvars>>

\* client.rs:26  `for message in rx_2` ends once the channel is closed and empty
WriterEnd(c) ==
  /\ Alive
  /\ writer[c] = "running"
  /\ outbox[c] = <<>>
  /\ ~TxLive(c)
  /\ writer' = [writer EXCEPT ![c] = "ended"]
  /\ UNCHANGED <<spent, backlog, hello, joinq, reader, inbox, outbox, socket, connections,
                 kraken, kraken_cooldown, pc, ticks, tickvars>>

----------------------------------------------------------------------------
(* main.rs: the engine *)

Msg(kind, name) == [kind |-> kind, name |-> name]

RECURSIVE SetToSeq(_)
\* the iteration order of a HashMap's keys: some fixed order
SetToSeq(S) ==
  IF S = {} THEN <<>>
  ELSE LET x == CHOOSE y \in S : TRUE IN <<x>> \o SetToSeq(S \ {x})

RECURSIVE Repeat(_, _)
Repeat(x, k) == IF k <= 0 THEN <<>> ELSE <<x>> \o Repeat(x, k - 1)

\* connection.tx.send(message) for every connection of the table conns
Broadcast(ob, conns, msgs) ==
  [c \in Clients |->
     IF c \in {conns[n].id : n \in DOMAIN conns} THEN ob[c] \o msgs ELSE ob[c]]

\* A variant of handle_join in which the newcomer takes over a name in use
HandleJoin_replace(sess, type) ==
  /\ socket' = [socket EXCEPT ![sess.id] =
                  Append(@, [msg |-> Msg("radius", ""), by |-> "engine"])]
  /\ writer' = [writer EXCEPT ![sess.id] = "running"]
  /\ outbox' = [outbox EXCEPT ![sess.id] = <<>>]
  /\ connections' =
       [n \in DOMAIN connections \cup {sess.name} |->
          IF n = sess.name THEN [id |-> sess.id, ship |-> Ship_new(type)] ELSE connections[n]]

\* A variant of handle_join that leaves the radius line out
HandleJoin_silent(sess, type) ==
  /\ writer' = [writer EXCEPT ![sess.id] = "running"]
  /\ outbox' = [outbox EXCEPT ![sess.id] = <<>>]
  /\ connections' =
       IF sess.name \in DOMAIN connections THEN connections
       ELSE connections @@ (sess.name :> [id |-> sess.id, ship |-> Ship_new(type)])
  /\ UNCHANGED socket

\* main.rs:232-251  handle_join: the radius line is written to the stream by the
\* calling thread, then ClientData::new makes the outbound channel and spawns
\* the writer; entry(name).or_insert(client) drops the client if the name is taken.
HandleJoin(sess, type) ==
  /\ socket' = [socket EXCEPT ![sess.id] =
                  Append(@, [msg |-> Msg("radius", ""), by |-> "engine"])]
  /\ writer' = [writer EXCEPT ![sess.id] = "running"]
  /\ outbox' = [outbox EXCEPT ![sess.id] = <<>>]
  /\ connections' =
       IF sess.name \in DOMAIN connections THEN connections
       ELSE connections @@ (sess.name :> [id |-> sess.id, ship |-> Ship_new(type)])

\* main.rs:254-262  rx.recv() blocks for the first session, then the loop starts
EngineRecv ==
  /\ pc = "recv"
  /\ joinq # <<>>
  /\ \E type \in ShipTypes : HandleJoin(Head(joinq), type)
  /\ joinq' = Tail(joinq)
  /\ pc' = "tick"
  /\ UNCHANGED <<spent, backlog, hello, reader, inbox, kraken, kraken_cooldown, ticks, tickvars>>

\* main.rs:265-267  a tick begins, unless the run has had its cap of ticks
EngineTickTo(cap) ==
  /\ pc = "tick"
  /\ ticks < cap
  /\ kraken_cooldown' = kraken_cooldown - delta_t
  /\ ticks' = ticks + 1
  /\ pc' = "join"
  /\ UNCHANGED <<spent, netvars, connections, kraken, tickvars>>

EngineTick == EngineTickTo(MaxTicks)

\* main.rs:269-271  rx.try_iter(): the next queued session is admitted
EngineJoin ==
  /\ pc = "join"
  /\ joinq # <<>>
  /\ \E type \in ShipTypes : HandleJoin(Head(joinq), type)
  /\ joinq' = Tail(joinq)
  /\ UNCHANGED <<spent, backlog, hello, reader, inbox, kraken, kraken_cooldown, pc, ticks, tickvars>>

\* A variant of the commands in which an action of any index above 0 dives or
\* surfaces the ship, whatever its class can do
ApplyMessage_anyclass(ship, m, checks) ==
  IF m.kind = "Sail"
  THEN [ship |-> [ship EXCEPT !.power = Quot(m.a * Abs(m.a), Q(1)), !.helm = m.b],
        pushed |-> FALSE, panic |-> FALSE]
  ELSE IF m.kind = "Anchor"
  THEN [ship |-> IF 2 * Abs(ship.velocity) < Q(1) THEN [ship EXCEPT !.velocity = 0] ELSE ship,
        pushed |-> FALSE, panic |-> FALSE]
  ELSE IF m.kind = "Smoke"
  THEN [ship |-> [ship EXCEPT !.smoke = ~ship.smoke], pushed |-> FALSE, panic |-> FALSE]
  ELSE IF m.a = 0
  THEN [ship |-> ship, pushed |-> FALSE, panic |-> checks]
  ELSE IF ship.submerged
  THEN [ship |-> [ship EXCEPT !.submerged = FALSE], pushed |-> FALSE, panic |-> FALSE]
  ELSE [ship |-> [ship EXCEPT !.submerged = TRUE,
                              !.velocity = Quot(@ * get_value(ship.stats.mass, FALSE),
                                                get_value(ship.stats.mass, TRUE))],
        pushed |-> TRUE, panic |-> FALSE]

\* main.rs:279-305  one ClientMessage applied to a ship.  checks: the build has
\* overflow checks (debug profile), so `action - 1` panics on 0; without them it
\* wraps and actions.get finds nothing.
ApplyMessage(ship, m, checks) ==
  IF m.kind = "Sail"
  THEN [ship |-> [ship EXCEPT !.power = Quot(m.a * Abs(m.a), Q(1)), !.helm = m.b],
        pushed |-> FALSE, panic |-> FALSE]
  ELSE IF m.kind = "Anchor"
  THEN [ship |-> IF 2 * Abs(ship.velocity) < Q(1) THEN [ship EXCEPT !.velocity = 0] ELSE ship,
        pushed |-> FALSE, panic |-> FALSE]
  ELSE IF m.kind = "Smoke"
  THEN [ship |-> [ship EXCEPT !.smoke = ~ship.smoke], pushed |-> FALSE, panic |-> FALSE]
  ELSE IF m.a = 0
  THEN [ship |-> ship, pushed |-> FALSE, panic |-> checks]
  ELSE IF m.a <= Len(ship.stats.actions) /\ ship.stats.actions[m.a] = "Submerge"
  THEN IF ship.submerged
       THEN [ship |-> [ship EXCEPT !.submerged = FALSE], pushed |-> FALSE, panic |-> FALSE]
       ELSE [ship |-> [ship EXCEPT !.submerged = TRUE,
                                   !.velocity = Quot(@ * get_value(ship.stats.mass, FALSE),
                                                     get_value(ship.stats.mass, TRUE))],
             pushed |-> TRUE, panic |-> FALSE]
  ELSE [ship |-> ship, pushed |-> FALSE, panic |-> FALSE]

RECURSIVE DrainInbox(_, _, _, _)
\* main.rs:277-313  the try_recv loop of one connection over its queued messages
DrainInbox(ship, msgs, name, checks) ==
  IF msgs = <<>> THEN [ship |-> ship, sunk |-> <<>>, panic |-> FALSE]
  ELSE LET r == ApplyMessage(ship, Head(msgs), checks)
           rest == DrainInbox(r.ship, Tail(msgs), name, checks)
       IN  IF r.panic THEN [ship |-> r.ship, sunk |-> <<>>, panic |-> TRUE]
           ELSE [ship |-> rest.ship,
                 sunk |-> (IF r.pushed THEN <<name>> ELSE <<>>) \o rest.sunk,
                 panic |-> rest.panic]

RECURSIVE Concat(_, _)
Concat(f, names) == IF names = <<>> THEN <<>> ELSE f[Head(names)] \o Concat(f, Tail(names))

\* try_recv reports Disconnected once the queue is empty and the reader has gone
Disconnected(c) == reader[c] \in {"eof", "failed", "closed"}

\* A variant of the removal that keeps every connection
RemoveDisconnected_none(conns, gone) == conns

\* main.rs:315-322  the disconnected are removed, then announced to the others
RemoveDisconnected(conns, gone) == [n \in DOMAIN conns \ gone |-> conns[n]]

\* main.rs:272-322  the inbound drain of all connections
EngineDrain ==
  /\ pc = "join"
  /\ joinq = <<>>
  /\ \A c \in Clients : Len(outbox[c]) <= MaxBacklog
  /\ \E checks \in BOOLEAN :
       LET res == [n \in DOMAIN connections |->
                     DrainInbox(connections[n].ship, inbox[connections[n].id], n, checks)]
           disconnected == {n \in DOMAIN connections : Disconnected(connections[n].id)}
           drained == [n \in DOMAIN connections |-> [connections[n] EXCEPT !.ship = res[n].ship]]
           kept == RemoveDisconnected(drained, disconnected)
       IN  IF \E n \in DOMAIN connections : res[n].panic
           THEN /\ pc' = "panic"
                /\ UNCHANGED <<inbox, connections, outbox, tickvars>>
           ELSE /\ pc' = "ships"
                /\ inbox' = [c \in Clients |-> IF c \in Ids THEN <<>> ELSE inbox[c]]
                /\ connections' = kept
                /\ outbox' = Broadcast(outbox, kept,
                               [i \in 1..Cardinality(disconnected) |->
                                  Msg("sunk", SetToSeq(disconnected)[i])])
                /\ sunk' = Concat([n \in DOMAIN connections |-> res[n].sunk],
                                  SetToSeq(DOMAIN connections))
                /\ todo' = DOMAIN kept
                /\ splashes' = 0
                /\ wakes' = 0
                /\ kraken_targets' = <<>>
  /\ UNCHANGED <<spent, backlog, hello, joinq, reader, writer, socket, kraken, kraken_cooldown, ticks>>

----------------------------------------------------------------------------
(* main.rs:326-482: the ship loop.  One iteration takes a context           *)
(* [ship, kraken, mobile, target, nsunk, splashes, wakes, panic, stop]      *)
(* through the stages below; each stage gives the set of contexts its       *)
(* random draws can produce.  kraken is <<>> (None) or <<ship>> (Some).     *)

\* Representatives of kraken.distance(ship): inside the boss's gun range, inside
\* the ship's only, outside both.
KrakenDists == {50, 5000, 50000}
\* Representative of rng.gen_range(40.0..80.0), the boss's spawn distance
SpawnOffset == 40

Context(ship, k) ==
  [ship |-> ship, kraken |-> k, mobile |-> TRUE, target |-> FALSE, nsunk |-> 0,
   splashes |-> 0, wakes |-> 0, mines |-> 0, spawns |-> 0, panic |-> FALSE, stop |-> FALSE]

\* rng.gen_bool(p) for p = num / den: the outcomes possible; it panics unless 0 <= p <= 1
GenBool(num, den) ==
  (IF num < den THEN {FALSE} ELSE {}) \cup (IF num > 0 THEN {TRUE} ELSE {})
GenBoolPanics(num, den) == num < 0 \/ num > den

\* A variant of the ship's shot whose shell lands on the ship that fires it
FireAtKraken_backfire(c) ==
  IF c.ship.stats.cooldown > 0
  THEN {c}
  ELSE {LET r == shoot(c.ship, c.ship, hit, roll, reload)
        IN  [c EXCEPT !.ship = [r.target EXCEPT !.stats.cooldown = r.attacker.stats.cooldown],
                      !.splashes = @ + 2] :
          hit \in BOOLEAN, roll \in GunRolls, reload \in ReloadDraws(c.ship.stats)}

\* main.rs:345-359  the ship fires at the boss
FireAtKraken(c) ==
  IF c.ship.stats.cooldown > 0
  THEN {c}
  ELSE {LET r == shoot(c.ship, c.kraken[1], hit, roll, reload)
        IN  [c EXCEPT !.ship = r.attacker, !.kraken = <<r.target>>, !.splashes = @ + 2] :
          hit \in BOOLEAN, roll \in GunRolls, reload \in ReloadDraws(c.ship.stats)}

\* A variant of the boss's grip that targets a ship in range but lets it drift
KrakenStage_drift(c) ==
  IF c.kraken = <<>> THEN {c}
  ELSE UNION {LET c1 == IF distance < c.kraken[1].stats.gun_range
                        THEN [c EXCEPT !.mobile = FALSE, !.target = TRUE]
                        ELSE c
              IN  IF distance < c1.ship.stats.gun_range THEN FireAtKraken(c1) ELSE {c1} :
                distance \in KrakenDists}

\* main.rs:336-361
KrakenStage(c) ==
  IF c.kraken = <<>> THEN {c}
  ELSE UNION {LET c1 == IF distance < c.kraken[1].stats.gun_range
                        THEN [c EXCEPT !.ship.velocity = 0, !.mobile = FALSE, !.target = TRUE]
                        ELSE c
              IN  IF distance < c1.ship.stats.gun_range THEN FireAtKraken(c1) ELSE {c1} :
                distance \in KrakenDists}

\* main.rs:362-372  delta_t * ship.power.abs() as num / den
SmokeStage(c) ==
  IF ~c.ship.smoke THEN {c}
  ELSE LET num == TIME_ACCELERATION_FACTOR * Abs(c.ship.power)
           den == TPS * Q(1)
       IN  IF GenBoolPanics(num, den) THEN {[c EXCEPT !.panic = TRUE]}
           ELSE {IF b THEN [c EXCEPT !.splashes = @ + 1] ELSE c : b \in GenBool(num, den)}

\* main.rs:373-388  wake_chance = velocity.abs() * delta_t / 5.0, capped at 1
WakeStage(c) ==
  IF c.ship.submerged THEN {c}
  ELSE LET num == Min(TIME_ACCELERATION_FACTOR * Abs(c.ship.velocity), TPS * Q(1) * 5)
           den == TPS * Q(1) * 5
       IN  {IF b THEN [c EXCEPT !.wakes = @ + 1] ELSE c : b \in GenBool(num, den)}

\* main.rs:389
StepStage(c) ==
  UNION {{[c EXCEPT !.ship = step(c.ship, velocity, coords)] :
            coords \in StepCoords(c.ship, velocity)} :
           velocity \in StepVelocities(c.ship)}

\* main.rs:429-463  the boss a ship at distance d from the origin spawns, at kd
KrakenShip(d, kd) ==
  LET radius == MAP_RADIUS.radius
      scale == MAP_RADIUS.scale
      scale_factor_sqrt == Sqrt100(((d - radius + scale) * 10000) \div scale)
      stats == ShipStats_new(KRAKEN_NAME, 8, Hp((3000 * (d - radius + scale)) \div scale),
                             0, (Hp(100) * scale_factor_sqrt) \div 100,
                             (100 * scale_factor_sqrt) \div 100,
                             <<Sec(1) \div 2, Sec(3) \div 2>>, <<>>)
  IN  [coords |-> kd, velocity |-> 0, helm |-> 0, power |-> 0, stats |-> stats,
       sunk |-> FALSE, submerged |-> FALSE, smoke |-> FALSE,
       respawn_cooldown |-> RESPAWN_COOLDOWN]

\* main.rs:425-469  the boss may spawn, inward or outward of the ship
SpawnStage(c, cooldown) ==
  IF c.kraken = <<>> /\ cooldown <= 0
  THEN (IF FALSE \in GenBool(MAP_RADIUS.kraken_spawn_chance_pct * TIME_ACCELERATION_FACTOR,
                             100 * TPS) THEN {c} ELSE {}) \cup
       {LET d == distance_from_origin(c.ship)
            off == (SpawnOffset * Sqrt100(((d - MAP_RADIUS.radius + MAP_RADIUS.scale) * 10000)
                                             \div MAP_RADIUS.scale)) \div 100
            kraken_ship == KrakenShip(d, d + dir * off)
        IN  IF distance_from_origin(kraken_ship) > MAP_RADIUS.radius
            THEN [c EXCEPT !.kraken = <<kraken_ship>>, !.ship.velocity = 0, !.target = TRUE,
                           !.spawns = @ + 1]
            ELSE c : dir \in {-1, 1}}
  ELSE {c}

\* main.rs:404-424  a mine may go off: mine_chance is mine_spawn_chance (1/10000)
\* * velocity.abs() * beam * delta_t, positive exactly when the ship moves
MineStage(c) ==
  {c} \cup
  (IF TRUE \notin GenBool(TIME_ACCELERATION_FACTOR * Abs(c.ship.velocity), 10000 * TPS * Q(1))
   THEN {}
   ELSE {LET dmg == (MAP_RADIUS.mine_damage * roll[1]) \div roll[2]
             hit == damage(c.ship, dmg)
         IN  [c EXCEPT !.ship = [hit EXCEPT !.velocity =
                                   Quot(@ * current_mass(hit), current_mass(hit) + dmg)],
                       !.nsunk = IF hit.sunk THEN @ + 1 ELSE @,
                       !.splashes = @ + 1, !.mines = @ + 1] : roll \in MineRolls})

\* main.rs:399-403  the border pushes a mobile ship inward
RecentreStage(c) ==
  IF ~c.mobile THEN {c}
  ELSE LET i == DistIndex(c.ship.coords)
       IN  {c} \cup (IF i > 1 /\ Dists[i - 1] > MAP_RADIUS.radius
                     THEN {[c EXCEPT !.ship.coords = Dists[i - 1]]} ELSE {})

\* A variant of the Ocean border that sinks a ship without announcing it
BorderStage_mute(c, cooldown) ==
  LET ship_distance == distance_from_origin(c.ship)
      radius == MAP_RADIUS.radius
  IN  IF ship_distance <= radius THEN {c}
      ELSE LET amount == Quot(MAP_RADIUS.dps * (ship_distance - radius) * TIME_ACCELERATION_FACTOR,
                              (ship_distance - radius + MAP_RADIUS.scale) * TPS)
               hurt == damage(c.ship, amount)
           IN  IF hurt.sunk
               THEN {[c EXCEPT !.ship = hurt, !.stop = TRUE]}
               ELSE UNION {UNION {SpawnStage(c3, cooldown) : c3 \in MineStage(c2)} :
                             c2 \in RecentreStage([c EXCEPT !.ship = hurt])}

\* main.rs:390-481  the Ocean border
BorderStage(c, cooldown) ==
  LET ship_distance == distance_from_origin(c.ship)
      radius == MAP_RADIUS.radius
  IN  IF ship_distance <= radius THEN {c}
      ELSE LET amount == Quot(MAP_RADIUS.dps * (ship_distance - radius) * TIME_ACCELERATION_FACTOR,
                              (ship_distance - radius + MAP_RADIUS.scale) * TPS)
               hurt == damage(c.ship, amount)
           IN  IF hurt.sunk
               THEN {[c EXCEPT !.ship = hurt, !.nsunk = @ + 1, !.stop = TRUE]}
               ELSE UNION {UNION {SpawnStage(c3, cooldown) : c3 \in MineStage(c2)} :
                             c2 \in RecentreStage([c EXCEPT !.ship = hurt])}

\* main.rs:336-481  a ship that is not sunk
ShipTurn(ship, k, cooldown) ==
  LET smoked == UNION {SmokeStage(c) : c \in KrakenStage(Context(ship, k))}
      ok == {c \in smoked : ~c.panic}
      stepped == UNION {StepStage(c2) : c2 \in UNION {WakeStage(c1) : c1 \in ok}}
  IN  (smoked \ ok) \cup UNION {BorderStage(c, cooldown) : c \in stepped}

\* A variant of the respawn that replaces the ship one tick early
Respawn_early(ship, type) ==
  IF ship.respawn_cooldown <= 1 THEN Ship_new(type)
  ELSE [ship EXCEPT !.respawn_cooldown = @ - 1]

\* main.rs:328-335  a sunk ship waits for its respawn
Respawn(ship, type) ==
  IF ship.respawn_cooldown = 0 THEN Ship_new(type)
  ELSE [ship EXCEPT !.respawn_cooldown = @ - 1]

\* main.rs:326-482  one iteration of the ship loop, in the table's iteration order
EngineShip(n) ==
  /\ pc = "ships"
  /\ n \in todo
  /\ todo' = todo \ {n}
  /\ IF connections[n].ship.sunk
     THEN /\ \E type \in ShipTypes :
               connections' = [connections EXCEPT ![n].ship = Respawn(@, type)]
          /\ UNCHANGED <<kraken, kraken_targets, sunk, splashes, wakes, pc, spent>>
     ELSE \E c \in ShipTurn(connections[n].ship, kraken, kraken_cooldown) :
            /\ spent.mines + c.mines <= MaxMines
            /\ spent.spawns + c.spawns <= MaxSpawns
            /\ spent' = [spent EXCEPT !.mines = @ + c.mines, !.spawns = @ + c.spawns]
            /\ connections' = [connections EXCEPT ![n].ship = c.ship]
            /\ kraken' = c.kraken
            /\ kraken_targets' = IF c.target THEN Append(kraken_targets, n) ELSE kraken_targets
            /\ sunk' = sunk \o Repeat(n, c.nsunk)
            /\ splashes' = splashes + c.splashes
            /\ wakes' = wakes + c.wakes
            /\ pc' = IF c.panic THEN "panic" ELSE pc
  /\ UNCHANGED <<netvars, kraken_cooldown, ticks>>

\* seconds (in Sec) of an amount of hit points (in Hp) divided by d
HpSeconds(amount, d) == Quot(amount * (Sec(1) \div Hp(1)), d)

\* A variant of the sunk boss's removal that takes the cooldown from the damage
KrakenSunk_damage(kraken_ship) ==
  {[kraken |-> <<>>,
    kraken_cooldown |-> HpSeconds(current_mass(kraken_ship) - kraken_ship.stats.health, 100),
    connections |-> connections, msgs |-> <<Msg("sunk", KRAKEN_NAME)>>, panic |-> FALSE]}

\* main.rs:505-511  the boss has been sunk
KrakenSunk(kraken_ship) ==
  {[kraken |-> <<>>, kraken_cooldown |-> HpSeconds(current_mass(kraken_ship), 50),
    connections |-> connections, msgs |-> <<Msg("sunk", KRAKEN_NAME)>>, panic |-> FALSE]}

\* A variant of the boss's shot that aims at any name, listed or not
KrakenFires_any(kraken_ship) ==
  UNION {IF target \notin DOMAIN connections
         THEN {[kraken |-> <<kraken_ship>>, kraken_cooldown |-> kraken_cooldown,
                connections |-> connections, msgs |-> <<>>, panic |-> TRUE]}
         ELSE {LET r == shoot(kraken_ship, connections[target].ship, hit, roll, reload)
               IN  [kraken |-> <<r.attacker>>, kraken_cooldown |-> kraken_cooldown,
                    connections |-> [connections EXCEPT ![target].ship = r.target],
                    msgs |-> IF r.state = "Sunk" THEN <<Msg("sunk", target)>> ELSE <<>>,
                    panic |-> FALSE] :
                 hit \in BOOLEAN, roll \in GunRolls, reload \in ReloadDraws(kraken_ship.stats)} :
           target \in Names}

\* main.rs:512-522  the boss fires at one of its targets
KrakenFires(kraken_ship) ==
  UNION {IF target \notin DOMAIN connections
         THEN {[kraken |-> <<kraken_ship>>, kraken_cooldown |-> kraken_cooldown,
                connections |-> connections, msgs |-> <<>>, panic |-> TRUE]}
         ELSE {LET r == shoot(kraken_ship, connections[target].ship, hit, roll, reload)
               IN  [kraken |-> <<r.attacker>>, kraken_cooldown |-> kraken_cooldown,
                    connections |-> [connections EXCEPT ![target].ship = r.target],
                    msgs |-> IF r.state = "Sunk" THEN <<Msg("sunk", target)>> ELSE <<>>,
                    panic |-> FALSE] :
                 hit \in BOOLEAN, roll \in GunRolls, reload \in ReloadDraws(kraken_ship.stats)} :
           target \in {kraken_targets[i] : i \in 1..Len(kraken_targets)}}

\* A variant of the boss's leaving that announces it and keeps the boss
KrakenLeaves_stays(kraken_ship) ==
  {[kraken |-> <<kraken_ship>>,
    kraken_cooldown |-> HpSeconds(current_mass(kraken_ship) - kraken_ship.stats.health, 100),
    connections |-> connections, msgs |-> <<Msg("sunk", KRAKEN_NAME)>>, panic |-> FALSE]}

\* A variant of the boss's leaving that announces nothing
KrakenLeaves_quiet(kraken_ship) ==
  {[kraken |-> <<>>,
    kraken_cooldown |-> HpSeconds(current_mass(kraken_ship) - kraken_ship.stats.health, 100),
    connections |-> connections, msgs |-> <<>>, panic |-> FALSE]}

\* main.rs:523-530  the boss has no target
KrakenLeaves(kraken_ship) ==
  {[kraken |-> <<>>,
    kraken_cooldown |-> HpSeconds(current_mass(kraken_ship) - kraken_ship.stats.health, 100),
    connections |-> connections, msgs |-> <<Msg("sunk", KRAKEN_NAME)>>, panic |-> FALSE]}

\* main.rs:503-531  the boss's turn: what it can leave of the boss, its cooldown
\* and the ships, the messages it broadcasts, and whether it panics
KrakenTurn ==
  IF kraken = <<>>
  THEN {[kraken |-> kraken, kraken_cooldown |-> kraken_cooldown, connections |-> connections,
         msgs |-> <<>>, panic |-> FALSE]}
  ELSE LET kraken_ship == [kraken[1] EXCEPT !.stats.cooldown = @ - delta_t]
       IN  IF kraken_ship.sunk THEN KrakenSunk(kraken_ship)
           ELSE IF kraken_targets # <<>> THEN KrakenFires(kraken_ship)
           ELSE KrakenLeaves(kraken_ship)

\* main.rs:532-538  the ships whose state is sent: the players', then the boss's
StateShips(conns, k) ==
  [i \in 1..Cardinality(DOMAIN conns) |->
     LET n == SetToSeq(DOMAIN conns)[i] IN [name |-> n, ship |-> conns[n].ship]]
    \o (IF k = <<>> THEN <<>> ELSE <<[name |-> KRAKEN_NAME, ship |-> k[1]]>>)

\* A variant of the state messages that sends every ship's state to everyone
Recipients_all(entry, conns) == {conns[n].id : n \in DOMAIN conns}

\* main.rs:551-557  who is sent the state of a ship
Recipients(entry, conns) ==
  IF entry.ship.submerged /\ ~entry.ship.sunk
  THEN {conns[n].id : n \in DOMAIN conns \cap {entry.name}}
  ELSE {conns[n].id : n \in DOMAIN conns}

RECURSIVE StateMessages(_, _, _)
StateMessages(ships, c, conns) ==
  IF ships = <<>> THEN <<>>
  ELSE (IF c \in Recipients(Head(ships), conns) THEN <<Msg("ship", Head(ships).name)>> ELSE <<>>)
         \o StateMessages(Tail(ships), c, conns)

\* main.rs:483-502  the tick's sunk, splash and wake events
Events ==
  [i \in 1..Len(sunk) |-> Msg("sunk", sunk[i])]
    \o Repeat(Msg("splash", ""), splashes) \o Repeat(Msg("wake", ""), wakes)

\* main.rs:483-566  the end of a tick: the events are broadcast, the boss takes
\* its turn, every ship's state is sent; the engine returns once no connection is
\* left, else it sleeps until the next tick
EngineBroadcast ==
  /\ pc = "ships"
  /\ todo = {}
  /\ \E o \in KrakenTurn :
       LET sent == Broadcast(outbox, connections, Events \o o.msgs)
       IN  IF o.panic
           THEN /\ pc' = "panic"
                /\ outbox' = Broadcast(outbox, connections, Events)
                /\ UNCHANGED <<connections, kraken, kraken_cooldown, tickvars>>
           ELSE /\ pc' = IF DOMAIN connections = {} THEN "done" ELSE "tick"
                /\ outbox' = [c \in Clients |->
                                sent[c] \o StateMessages(StateShips(o.connections, o.kraken),
                                                         c, o.connections)]
                /\ connections' = o.connections
                /\ kraken' = o.kraken
                /\ kraken_cooldown' = o.kraken_cooldown
                /\ todo' = {}
                /\ sunk' = <<>>
                /\ splashes' = 0
                /\ wakes' = 0
                /\ kraken_targets' = <<>>
  /\ UNCHANGED <<spent, backlog, hello, joinq, reader, inbox, writer, socket, ticks>>

----------------------------------------------------------------------------
(* The system *)

Init ==
  /\ backlog = <<>>
  /\ hello = [c \in Clients |-> [st |-> "idle", line |-> NoLine]]
  /\ joinq = <<>>
  /\ reader = [c \in Clients |-> "none"]
  /\ inbox = [c \in Clients |-> <<>>]
  /\ writer = [c \in Clients |-> "none"]
  /\ outbox = [c \in Clients |-> <<>>]
  /\ socket = [c \in Clients |-> <<>>]
  /\ connections = <<>>
  /\ kraken = <<>>
  /\ kraken_cooldown = 0
  /\ pc = "recv"
  /\ ticks = 0
  /\ todo = {}
  /\ sunk = <<>>
  /\ splashes = 0
  /\ wakes = 0
  /\ kraken_targets = <<>>
  /\ spent = [lines |-> 0, mines |-> 0, spawns |-> 0]

Next ==
  \/ \E c \in Clients : ClientConnect(c)
  \/ \E c \in Clients : ClientHello(c)
  \/ Accept
  \/ \E c \in Clients : ReaderLine(c)
  \/ \E c \in Clients : ReaderEof(c)
  \/ \E c \in Clients : WriterWrite(c)
  \/ \E c \in Clients : WriterEnd(c)
  \/ EngineRecv
  \/ EngineTick
  \/ EngineJoin
  \/ EngineDrain
  \/ \E n \in Names : EngineShip(n)
  \/ EngineBroadcast

Spec == Init /\ [][Next]_vars

----------------------------------------------------------------------------
(* The wait for a respawn.  The run starts where Spec can be after its first *)
(* tick: one client, "a", whose submersible was told `sail 1 -1`, crossed the *)
(* border and was sunk by a mine.  It goes on for RespawnTicks ticks.          *)

RespawnTicks == RESPAWN_COOLDOWN + ExtraTicks

SunkShip ==
  LET sailed == ApplyMessage(Ship_new("UBoat"), [kind |-> "Sail", a |-> Q(1), b |-> -Q(1)],
                             FALSE).ship
  IN  (CHOOSE c \in ShipTurn(sailed, <<>>, -delta_t) :
         c.ship.sunk /\ c.kraken = <<>> /\ c.wakes = 0).ship

InitRespawn ==
  /\ backlog = <<>>
  /\ hello = [c \in Clients |-> [st |-> IF c = 1 THEN "accepted" ELSE "idle", line |-> NoLine]]
  /\ joinq = <<>>
  /\ reader = [c \in Clients |-> IF c = 1 THEN "running" ELSE "none"]
  /\ inbox = [c \in Clients |-> <<>>]
  /\ writer = [c \in Clients |-> IF c = 1 THEN "running" ELSE "none"]
  /\ outbox = [c \in Clients |->
                 IF c = 1 THEN <<Msg("sunk", "a"), Msg("splash", ""), Msg("ship", "a")>>
                 ELSE <<>>]
  /\ socket = [c \in Clients |->
                 IF c = 1 THEN <<[msg |-> Msg("radius", ""), by |-> "engine"]>> ELSE <<>>]
  /\ connections = ("a" :> [id |-> 1, ship |-> SunkShip])
  /\ kraken = <<>>
  /\ kraken_cooldown = -delta_t
  /\ pc = "tick"
  /\ ticks = 1
  /\ todo = {}
  /\ sunk = <<>>
  /\ splashes = 0
  /\ wakes = 0
  /\ kraken_targets = <<>>
  /\ spent = [lines |-> 1, mines |-> 1, spawns |-> 0]

NextRespawn ==
  \/ \E c \in Clients : ReaderLine(c)
  \/ \E c \in Clients : ReaderEof(c)
  \/ \E c \in Clients : WriterWrite(c)
  \/ EngineTickTo(RespawnTicks)
  \/ EngineDrain
  \/ \E n \in Names : EngineShip(n)
  \/ EngineBroadcast

SpecRespawn == InitRespawn /\ [][NextRespawn]_vars

----------------------------------------------------------------------------
(* A gun duel.  The run starts where Spec can be after its first tick: one   *)
(* client, "a", whose battlecruiser was told `sail 1 -1`, crossed the border, *)
(* struck a mine and roused the boss, which fired its first shot at it.  It   *)
(* goes on for DuelTicks ticks, long enough for the boss to reload.           *)

DuelTicks == 9

DuelTurn ==
  LET sailed == ApplyMessage(Ship_new("BattleCruiser"), [kind |-> "Sail", a |-> Q(1), b |-> -Q(1)],
                             FALSE).ship
  IN  CHOOSE c \in ShipTurn(sailed, <<>>, -delta_t) :
        c.kraken # <<>> /\ c.mines = 1 /\ c.wakes = 0

InitDuel ==
  /\ backlog = <<>>
  /\ hello = [c \in Clients |-> [st |-> IF c = 1 THEN "accepted" ELSE "idle", line |-> NoLine]]
  /\ joinq = <<>>
  /\ reader = [c \in Clients |-> IF c = 1 THEN "running" ELSE "none"]
  /\ inbox = [c \in Clients |-> <<>>]
  /\ writer = [c \in Clients |-> IF c = 1 THEN "running" ELSE "none"]
  /\ outbox = [c \in Clients |->
                 IF c = 1 THEN <<Msg("splash", ""), Msg("ship", "a"), Msg("ship", KRAKEN_NAME)>>
                 ELSE <<>>]
  /\ socket = [c \in Clients |->
                 IF c = 1 THEN <<[msg |-> Msg("radius", ""), by |-> "engine"]>> ELSE <<>>]
  /\ \E hit \in BOOLEAN : \E roll \in GunRolls :
       LET kraken_ship == [DuelTurn.kraken[1] EXCEPT !.stats.cooldown = @ - delta_t]
           r == shoot(kraken_ship, DuelTurn.ship, hit, roll, kraken_ship.stats.gun_reload_time[1])
       IN  /\ connections = ("a" :> [id |-> 1, ship |-> r.target])
           /\ kraken = <<r.attacker>>
  /\ kraken_cooldown = -delta_t
  /\ pc = "tick"
  /\ ticks = 1
  /\ todo = {}
  /\ sunk = <<>>
  /\ splashes = 0
  /\ wakes = 0
  /\ kraken_targets = <<>>
  /\ spent = [lines |-> 1, mines |-> 1, spawns |-> 1]

NextDuel ==
  \/ \E c \in Clients : WriterWrite(c)
  \/ EngineTickTo(DuelTicks)
  \/ EngineDrain
  \/ \E n \in Names : EngineShip(n)
  \/ EngineBroadcast

SpecDuel == InitDuel /\ [][NextDuel]_vars

----------------------------------------------------------------------------
(* Ship::damage on its own.  One ship of either class, surfaced or           *)
(* submerged, in the middle of its turn, takes hit after hit until it sinks.   *)
(* The amounts are taken around its health: none of it, a quarter, half, just  *)
(* less than all, all of it, just more.                                        *)

DamageAmounts(ship) ==
  LET h == ship.stats.health IN {0, h \div 4, h \div 2, h - 1, h, h + 1}

InitDamage ==
  /\ backlog = <<>>
  /\ hello = [c \in Clients |-> [st |-> IF c = 1 THEN "accepted" ELSE "idle", line |-> NoLine]]
  /\ joinq = <<>>
  /\ reader = [c \in Clients |-> IF c = 1 THEN "running" ELSE "none"]
  /\ inbox = [c \in Clients |-> <<>>]
  /\ writer = [c \in Clients |-> IF c = 1 THEN "running" ELSE "none"]
  /\ outbox = [c \in Clients |-> <<>>]
  /\ socket = [c \in Clients |->
                 IF c = 1 THEN <<[msg |-> Msg("radius", ""), by |-> "engine"]>> ELSE <<>>]
  /\ \E type \in ShipTypes : \E submerged \in BOOLEAN :
       /\ submerged => get_stats(type).actions = <<"Submerge">>
       /\ connections = ("a" :> [id |-> 1, ship |-> [Ship_new(type) EXCEPT !.submerged = submerged]])
  /\ kraken = <<>>
  /\ kraken_cooldown = -delta_t
  /\ pc = "ships"
  /\ ticks = 1
  /\ todo = {"a"}
  /\ sunk = <<>>
  /\ splashes = 0
  /\ wakes = 0
  /\ kraken_targets = <<>>
  /\ spent = [lines |-> 0, mines |-> 0, spawns |-> 0]

\* main.rs:396-398, 420-422  `if ship.damage(amount) { sunk.push(name.clone()) }`
DamageCall(n, amount) ==
  /\ pc = "ships"
  /\ n \in todo
  /\ ~connections[n].ship.sunk
  /\ LET hurt == damage(connections[n].ship, amount)
     IN  /\ connections' = [connections EXCEPT ![n].ship = hurt]
         /\ sunk' = IF hurt.sunk THEN Append(sunk, n) ELSE sunk
  /\ UNCHANGED <<netvars, kraken, kraken_cooldown, pc, ticks, todo, splashes, wakes,
                 kraken_targets, spent>>

NextDamage ==
  \E n \in DOMAIN connections : \E amount \in DamageAmounts(connections[n].ship) :
    DamageCall(n, amount)

SpecDamage == InitDamage /\ [][NextDamage]_vars

----------------------------------------------------------------------------
(* The open ocean.  The run starts some way into a session: one client, "a",  *)
(* whose ship lies still beyond radius + scale and has little health left.   *)
(* The client sends nothing more.  The engine, a loop that sleeps between     *)
(* ticks, keeps running: the run is fair to its steps.                        *)

OceanTicks == 7
OceanHealths == {Hp(1) \div 2, Hp(1)}

InitOcean ==
  /\ backlog = <<>>
  /\ hello = [c \in Clients |-> [st |-> IF c = 1 THEN "accepted" ELSE "idle", line |-> NoLine]]
  /\ joinq = <<>>
  /\ reader = [c \in Clients |-> IF c = 1 THEN "running" ELSE "none"]
  /\ inbox = [c \in Clients |-> <<>>]
  /\ writer = [c \in Clients |-> IF c = 1 THEN "running" ELSE "none"]
  /\ outbox = [c \in Clients |-> <<>>]
  /\ socket = [c \in Clients |->
                 IF c = 1 THEN <<[msg |-> Msg("radius", ""), by |-> "engine"],
                                 [msg |-> Msg("ship", "a"), by |-> "writer"]>>
                 ELSE <<>>]
  /\ \E type \in ShipTypes : \E health \in OceanHealths :
       connections = ("a" :> [id |-> 1,
                              ship |-> [Ship_new(type) EXCEPT !.coords = Dists[3],
                                                              !.stats.health = health,
                                                              !.stats.cooldown = -delta_t]])
  /\ kraken = <<>>
  /\ kraken_cooldown = -delta_t
  /\ pc = "tick"
  /\ ticks = 1
  /\ todo = {}
  /\ sunk = <<>>
  /\ splashes = 0
  /\ wakes = 0
  /\ kraken_targets = <<>>
  /\ spent = [lines |-> MaxLines, mines |-> 0, spawns |-> 0]

NextOcean ==
  \/ \E c \in Clients : WriterWrite(c)
  \/ EngineTickTo(OceanTicks)
  \/ EngineDrain
  \/ \E n \in Names : EngineShip(n)
  \/ EngineBroadcast

SpecOcean == InitOcean /\ [][NextOcean]_vars /\ WF_vars(NextOcean)

----------------------------------------------------------------------------
(* The hulls.  stats.rs: the fields of ShipStats that Ship::step and the     *)
(* state message read and the records above leave out.                        *)

\* stats.rs:217-232, 313-331  get_stats: length in decimetres, the form factor k
\* in thousandths, surface_area (a Variable) in tenths of a square metre,
\* screw_area and froude_scale_factor in hundredths
Hull(type) ==
  IF type = "BattleCruiser"
  THEN [length |-> 2287, k |-> 79, surface_area |-> <<36680, 36680>>,
        screw_area |-> 5281, froude_scale_factor |-> 420]
  ELSE [length |-> 671, k |-> 25, surface_area |-> <<8854, 13070>>,
        screw_area |-> 162, froude_scale_factor |-> 134]

----------------------------------------------------------------------------
(* The `ship` message on the wire.  The server writes a ship's state as one   *)
(* line of words; the client (enterprise) splits the line at white space and  *)
(* reads the words in turn.  A number is written by Display and read by       *)
(* FromStr, which give back the number written: the word of a number is        *)
(* Num(number).  Here a ship has its coordinates as <<x, y>> and its angle.    *)

Word(w) == [ok |-> FALSE, v |-> 0, word |-> w]
\* main.rs:22
COLOUR == "999"
\* enterprise main.rs:20-30  TEXTURES.len()
TEXTURES_len == 9
\* enterprise main.rs:403  the size of a ship whose size does not parse
DefaultSize == 600

\* main.rs:543-546  health / current_mass, at least 0; in thousandths
HealthFraction(ship) ==
  Max(0, Quot(ship.stats.health, current_mass(ship) \div 1000))

\* A variant of the message that writes the velocity before the angle
ShipLine_swapped(name, ship) ==
  <<Word("ship"), Word(name), Num(ship.coords[1]), Num(ship.coords[2]),
    Num(ship.velocity), Num(ship.angle), Num(ship.stats.length), Num(ship.stats.texture),
    Word("#" \o COLOUR), Num(HealthFraction(ship))>>

\* main.rs:539-550  "ship {name} {x} {y} {angle} {velocity} {size} {texture} #{COLOUR} {health}"
ShipLine(name, ship) ==
  <<Word("ship"), Word(name), Num(ship.coords[1]), Num(ship.coords[2]),
    Num(ship.angle), Num(ship.velocity), Num(ship.stats.length), Num(ship.stats.texture),
    Word("#" \o COLOUR), Num(HealthFraction(ship))>>

\* words.next().and_then(|w| w.parse().ok()): the i-th word of the line as a
\* number, BadToken when the line has no such word or it is no number
NumberAt(line, i) == IF i <= Len(line) /\ line[i].ok THEN line[i] ELSE BadToken

\* enterprise main.rs:376-427  the `ship` arm of handle_midway_connection: the
\* name, x, y, angle, velocity and health must be there ("Invalid input"
\* otherwise), the size, texture and colour have defaults
ParseShip(line) ==
  LET x == NumberAt(line, 3)
      y == NumberAt(line, 4)
      angle == NumberAt(line, 5)
      velocity == NumberAt(line, 6)
      size == NumberAt(line, 7)
      texture == NumberAt(line, 8)
      health == NumberAt(line, 10)
      hex == Len(line) >= 9 /\ ~line[9].ok /\ Len(line[9].word) \in {4, 7, 9}
                /\ SubSeq(line[9].word, 1, 1) = "#"
  IN  IF Len(line) >= 2 /\ x.ok /\ y.ok /\ angle.ok /\ velocity.ok /\ health.ok
      THEN [ok |-> TRUE,
            name |-> IF line[2].ok THEN "" ELSE line[2].word,
            coords |-> <<x.v, y.v>>, angle |-> angle.v, velocity |-> velocity.v,
            size |-> IF size.ok THEN size.v ELSE DefaultSize,
            texture |-> IF texture.ok /\ texture.v >= 0 /\ texture.v < TEXTURES_len
                        THEN texture.v ELSE 0,
            colour |-> IF hex THEN line[9].word ELSE "GRAY",
            health |-> health.v]
      ELSE [ok |-> FALSE]

\* Representatives of a ship's position, heading (in thousandths of a radian)
\* and health (as a share of its mass, in eighths; below 0 after a heavy hit)
WireXs == {-500, 0, 2010}
WireYs == {0, 300}
WireAngles == {0, 1571}
WireEighths == {-4, 0, 1, 8}

InitWire ==
  /\ backlog = <<>>
  /\ hello = [c \in Clients |-> [st |-> "accepted", line |-> NoLine]]
  /\ joinq = <<>>
  /\ reader = [c \in Clients |-> "running"]
  /\ inbox = [c \in Clients |-> <<>>]
  /\ writer = [c \in Clients |-> "running"]
  /\ outbox = [c \in Clients |-> <<>>]
  /\ socket = [c \in Clients |-> <<[msg |-> Msg("radius", ""), by |-> "engine"]>>]
  /\ \E type \in ShipTypes, x \in WireXs, y \in WireYs, angle \in WireAngles :
     \E velocity \in {-1, 0, MaxVel}, eighths, other \in WireEighths, submerged \in BOOLEAN :
       LET health == (get_stats(type).health \div 8) * eighths
           rest == (get_stats(type).health \div 8) * other
           ship == [Ship_new(type) EXCEPT !.coords = <<x, y>>, !.velocity = velocity,
                                          !.stats = [@ EXCEPT !.health = health]
                                                      @@ [length |-> Hull(type).length],
                                          !.sunk = health <= 0,
                                          !.submerged = submerged]
                     @@ [angle |-> angle]
       IN  /\ submerged => get_stats(type).actions = <<"Submerge">>
           /\ connections = ("a" :> [id |-> 1, ship |-> ship]
                               @@ "b" :> [id |-> 2, ship |-> [ship EXCEPT !.submerged = FALSE,
                                                                   !.stats.health = rest,
                                                                   !.sunk = rest <= 0]])
  /\ kraken = <<>>
  /\ kraken_cooldown = -delta_t
  /\ pc = "ships"
  /\ ticks = 1
  /\ todo = {}
  /\ sunk = <<>>
  /\ splashes = 0
  /\ wakes = 0
  /\ kraken_targets = <<>>
  /\ spent = [lines |-> 0, mines |-> 0, spawns |-> 0]

RECURSIVE WireMessages(_, _, _)
WireMessages(ships, c, conns) ==
  IF ships = <<>> THEN <<>>
  ELSE (IF c \in Recipients(Head(ships), conns)
        THEN <<ShipLine(Head(ships).name, Head(ships).ship)>> ELSE <<>>)
         \o WireMessages(Tail(ships), c, conns)

\* main.rs:532-558  every ship's state is written and sent
WireSend ==
  /\ pc = "ships"
  /\ todo = {}
  /\ outbox' = [c \in Clients |->
                  outbox[c] \o WireMessages(StateShips(connections, kraken), c, connections)]
  /\ pc' = "tick"
  /\ UNCHANGED <<backlog, hello, joinq, reader, inbox, writer, socket, connections,
                 kraken, kraken_cooldown, ticks, tickvars, spent>>

NextWire == WireSend

SpecWire == InitWire /\ [][NextWire]_vars

----------------------------------------------------------------------------
(* Ship::step with the engines stopped.  The velocity of a ship is named by   *)
(* its Reynolds number, length * |velocity| / WATER_VISCOSITY, which step      *)
(* takes the logarithm of: a velocity is                                       *)
(*   [sign, reynolds, share, finite]                                           *)
(* and stands for sign * share / 10000 times the speed that has that Reynolds  *)
(* number; finite is FALSE for an f32 infinity.  The drag is computed in       *)
(* fixed point: coefficients in millionths, the change of the velocity in      *)
(* ten-thousandths of the velocity.                                            *)

\* main.rs:38  GRAVITY, in hundredths
GRAVITY == 981

\* Reynolds numbers of one significant digit
CoastReynolds == {m * (10 ^ e) : m \in {1, 2, 5}, e \in 0..8} \cup {10 ^ 9, 2 * (10 ^ 9)}

\* f32::log10 in thousandths, to three decimals for a number of one significant
\* digit
RECURSIVE log10(_)
log10(re) ==
  IF re < 10
  THEN <<0, 301, 477, 602, 699, 778, 845, 903, 954>>[re]
  ELSE 1000 + log10(re \div 10)

\* |velocity| in cm/s: reynolds * WATER_VISCOSITY (main.rs:37) / length
Speed(type, re) == re \div (Hull(type).length * 1000)

\* main.rs:220-222  Ship::surface_area
surface_area(ship) == get_value(Hull(ship.stats.class).surface_area, ship.submerged)

\* main.rs:98-128  Ship::step for current_power() = 0: the cooldown runs down and
\* the velocity changes by net_thrust * delta_t / current_mass().  With q = 0,
\* s = -velocity^6 / 27: at rest, or so slow that the power underflows, the
\* Equal arm gives v_out = 0; else the Less arm gives
\* v_out = 2 |v| / sqrt(3) * cos(acos(0) / 3) = |v|.  So thrust is 0 ahead and
\* screw_area * |v| * 2 |v| astern.
step_velocity(ship, dt) ==
  LET hull == Hull(ship.stats.class)
      v == ship.velocity
      speed == Speed(ship.stats.class, v.reynolds)
      x == log10(v.reynolds) - 2000
      c_f == ((75000000 \div Abs(x)) * 1000) \div Abs(x)
      froude2 == (speed * speed * 100) \div (GRAVITY * hull.length)
      froude6 == (((froude2 * froude2) \div 1000) * froude2) \div 1000
      c_w == IF ship.submerged THEN 0 ELSE hull.froude_scale_factor * froude6 * 10
      c_total == (c_f * (1000 + hull.k)) \div 1000 + c_w
      \* |r_total| * delta_t / current_mass / |v|
      drag == ((((((c_total \div 100) * speed) \div 1000) * (surface_area(ship) \div 10))
                  * (dt \div 1000)) \div (current_mass(ship) \div 50))
      \* thrust * delta_t / current_mass / |v|
      push == IF v.sign < 0
              THEN (2 * hull.screw_area * speed * (dt \div 1000)) \div (current_mass(ship) \div 10)
              ELSE 0
      loss == drag + push
      velocity == IF v.sign = 0 THEN v
                  ELSE IF x = 0
                  THEN \* c_f = 0.075 / 0 is infinite, and so is r_total
                       [v EXCEPT !.sign = -v.sign, !.finite = FALSE]
                  ELSE [v EXCEPT !.sign = IF loss < 10000 THEN v.sign
                                          ELSE IF loss = 10000 THEN 0 ELSE -v.sign,
                                 !.share = Abs(10000 - loss)]
  IN  [ship EXCEPT !.stats.cooldown = @ - dt, !.velocity = velocity]

InitCoast ==
  /\ backlog = <<>>
  /\ hello = [c \in Clients |-> [st |-> IF c = 1 THEN "accepted" ELSE "idle", line |-> NoLine]]
  /\ joinq = <<>>
  /\ reader = [c \in Clients |-> IF c = 1 THEN "running" ELSE "none"]
  /\ inbox = [c \in Clients |-> <<>>]
  /\ writer = [c \in Clients |-> IF c = 1 THEN "running" ELSE "none"]
  /\ outbox = [c \in Clients |-> <<>>]
  /\ socket = [c \in Clients |->
                 IF c = 1 THEN <<[msg |-> Msg("radius", ""), by |-> "engine"]>> ELSE <<>>]
  /\ \E type \in ShipTypes, submerged \in BOOLEAN, sign \in {-1, 0, 1}, re \in CoastReynolds :
       /\ submerged => get_stats(type).actions = <<"Submerge">>
       /\ sign = 0 => re = 1
       /\ connections =
            ("a" :> [id |-> 1,
                     ship |-> [Ship_new(type) EXCEPT
                                 !.submerged = submerged,
                                 !.velocity = [sign |-> sign, reynolds |-> re,
                                               share |-> IF sign = 0 THEN 0 ELSE 10000,
                                               finite |-> TRUE]]])
  /\ kraken = <<>>
  /\ kraken_cooldown = -delta_t
  /\ pc = "ships"
  /\ ticks = 1
  /\ todo = {"a"}
  /\ sunk = <<>>
  /\ splashes = 0
  /\ wakes = 0
  /\ kraken_targets = <<>>
  /\ spent = [lines |-> 0, mines |-> 0, spawns |-> 0]

\* main.rs:389  ship.step(delta_t)
CoastStep(n) ==
  /\ pc = "ships"
  /\ n \in todo
  /\ connections' = [connections EXCEPT ![n].ship = step_velocity(@, delta_t)]
  /\ todo' = todo \ {n}
  /\ UNCHANGED <<netvars, kraken, kraken_cooldown, pc, ticks, sunk, splashes, wakes,
                 kraken_targets, spent>>

NextCoast == \E n \in DOMAIN connections : CoastStep(n)

SpecCoast == InitCoast /\ [][NextCoast]_vars

----------------------------------------------------------------------------
(* Joining late.  The acceptor is a thread of its own: it may push a session *)
(* onto the join queue at any point of the engine's loop, also after the     *)
(* tick's try_iter has run.  The clients send no commands; one may close its  *)
(* connection.  Sessions are pushed before the last tick of the run, so that  *)
(* a tick is left to admit them.  The engine's loop and the threads are fair. *)

JoinTicks == 3

NextJoin ==
  \/ \E c \in Clients : ClientConnect(c)
  \/ \E c \in Clients : ClientHello(c)
  \/ AcceptWhen(pc \notin {"done", "panic"} /\ ticks < JoinTicks)
  \/ \E c \in Clients : ReaderEof(c)
  \/ \E c \in Clients : WriterWrite(c)
  \/ \E c \in Clients : WriterEnd(c)
  \/ EngineRecv
  \/ EngineTickTo(JoinTicks)
  \/ EngineJoin
  \/ EngineDrain
  \/ \E n \in Names : EngineShip(n)
  \/ EngineBroadcast

SpecJoin == Init /\ [][NextJoin]_vars /\ WF_vars(NextJoin)

----------------------------------------------------------------------------
(* Ship::shoot on its own.  Two ships, "a" and "b", of either class, each     *)
(* with its gun loaded, just loaded or reloading, and with a health around    *)
(* the damage of a submarine's shell or whole.  They fire at each other in    *)
(* any order, sunk or not.                                                     *)

ShootHealths(stats) ==
  LET shell == (get_stats("UBoat").gun_damage * 7) \div 5
  IN  {shell - 1, shell, shell + 1, stats.health}

InitShoot ==
  /\ backlog = <<>>
  /\ hello = [c \in Clients |-> [st |-> "accepted", line |-> NoLine]]
  /\ joinq = <<>>
  /\ reader = [c \in Clients |-> "running"]
  /\ inbox = [c \in Clients |-> <<>>]
  /\ writer = [c \in Clients |-> "running"]
  /\ outbox = [c \in Clients |-> <<>>]
  /\ socket = [c \in Clients |-> <<[msg |-> Msg("radius", ""), by |-> "engine"]>>]
  /\ \E types \in ShipTypes \X ShipTypes :
     \E cooldowns \in {-delta_t, 0, delta_t} \X {-delta_t, 0, delta_t} :
     \E health1 \in ShootHealths(get_stats(types[1])), health2 \in ShootHealths(get_stats(types[2])) :
       connections =
         ("a" :> [id |-> 1, ship |-> [Ship_new(types[1]) EXCEPT !.stats.cooldown = cooldowns[1],
                                                              !.stats.health = health1]]
            @@ "b" :> [id |-> 2, ship |-> [Ship_new(types[2]) EXCEPT !.stats.cooldown = cooldowns[2],
                                                                   !.stats.health = health2]])
  /\ kraken = <<>>
  /\ kraken_cooldown = -delta_t
  /\ pc = "ships"
  /\ ticks = 1
  /\ todo = {"a", "b"}
  /\ sunk = <<>>
  /\ splashes = 0
  /\ wakes = 0
  /\ kraken_targets = <<>>
  /\ spent = [lines |-> 0, mines |-> 0, spawns |-> 0]

\* main.rs:345-359, 512-522  `match attacker.shoot(target)`: a shell that was
\* fired makes a splash, a Sunk is announced
ShootCall(n, m) ==
  /\ pc = "ships"
  /\ n # m
  /\ \E hit \in BOOLEAN, roll \in GunRolls, reload \in ReloadDraws(connections[n].ship.stats) :
       LET r == shoot(connections[n].ship, connections[m].ship, hit, roll, reload)
       IN  /\ r.state # "NotFired"
           /\ connections' = [connections EXCEPT ![n].ship = r.attacker, ![m].ship = r.target]
           /\ sunk' = IF r.state = "Sunk" THEN Append(sunk, m) ELSE sunk
           /\ splashes' = splashes + 1
  /\ UNCHANGED <<netvars, kraken, kraken_cooldown, pc, ticks, todo, wakes, kraken_targets, spent>>

NextShoot == \E n, m \in DOMAIN connections : ShootCall(n, m)

SpecShoot == InitShoot /\ [][NextShoot]_vars

----------------------------------------------------------------------------
(* A silent client.  The clients connect and send their first line when they *)
(* please, or never; none sends a command or closes its connection, so the    *)
(* engine, once started, runs on.  The acceptor and the engine are fair; the   *)
(* clients owe nothing.                                                        *)

AcceptAlways == AcceptWhen(pc \notin {"done", "panic"})

EngineNext ==
  \/ EngineRecv
  \/ EngineTickTo(JoinTicks)
  \/ EngineJoin
  \/ EngineDrain
  \/ \E n \in Names : EngineShip(n)
  \/ EngineBroadcast

NextSilent ==
  \/ \E c \in Clients : ClientConnect(c)
  \/ \E c \in Clients : ClientHello(c)
  \/ AcceptAlways
  \/ \E c \in Clients : WriterWrite(c)
  \/ \E c \in Clients : WriterEnd(c)
  \/ EngineNext

SpecSilent ==
  Init /\ [][NextSilent]_vars /\ WF_vars(AcceptAlways) /\ WF_vars(EngineNext)

----------------------------------------------------------------------------
(* Properties *)

Ships == {connections[n].ship : n \in DOMAIN connections}
RECURSIVE CountMsg(_, _)
CountMsg(msgs, m) ==
  IF msgs = <<>> THEN 0
  ELSE (IF Head(msgs) = m THEN 1 ELSE 0) + CountMsg(Tail(msgs), m)
\* what a step appends to c's outbound channel
Appended(c) == SubSeq(outbox'[c], Len(outbox[c]) + 1, Len(outbox'[c]))
Admitted(c) == writer[c] # "none"

\* C1: every player ship, and the boss, is sunk exactly when its health is at
\* most zero.
C1_SunkIffNoHealth ==
  /\ \A ship \in Ships : ship.sunk <=> ship.stats.health <= 0
  /\ kraken # <<>> => (kraken[1].sunk <=> kraken[1].stats.health <= 0)

\* a player ship has been sunk by damage
C1_Witness == \E ship \in Ships : ship.sunk /\ ship.stats.health < 0

\* C2: a sunk player ship has the counter RESPAWN_COOLDOWN when it sinks; its
\* turn in the ship loop takes one from the counter and leaves it sunk, or, only
\* when the counter is zero, replaces it by a fresh ship; no other step changes
\* the counter or raises the ship.
C2_RespawnAtZero ==
  [][\A n \in DOMAIN connections \cap DOMAIN connections' :
       LET old == connections[n].ship
           new == connections'[n].ship
           turn == pc = "ships" /\ n \in todo /\ n \notin todo'
       IN  /\ (~old.sunk /\ new.sunk) => new.respawn_cooldown = RESPAWN_COOLDOWN
           /\ (old.sunk /\ connections'[n].id = connections[n].id) =>
                 IF turn
                 THEN IF old.respawn_cooldown = 0
                      THEN \E type \in ShipTypes : new = Ship_new(type)
                      ELSE new.sunk /\ new.respawn_cooldown = old.respawn_cooldown - 1
                 ELSE new.sunk /\ new.respawn_cooldown = old.respawn_cooldown]_vars

\* the ship that was sunk has waited and been replaced by a fresh one
C2_Witness ==
  /\ ticks > RESPAWN_COOLDOWN + 1
  /\ \E ship \in Ships : ~ship.sunk /\ ship.stats.health = current_mass(ship)
                            /\ ship.respawn_cooldown = RESPAWN_COOLDOWN

\* C3: while a player ship stays sunk, no step changes any of its fields but
\* the respawn counter.
C3_SunkFrozen ==
  [][\A n \in DOMAIN connections \cap DOMAIN connections' :
       LET old == connections[n].ship
           new == connections'[n].ship
       IN  old.sunk /\ new.sunk /\ connections'[n].id = connections[n].id
             => new = [old EXCEPT !.respawn_cooldown = new.respawn_cooldown]]_vars

\* C4: no reader thread ends on a malformed line.
C4_MalformedSkipped == \A c \in Clients : reader[c] # "failed"

\* C5: the engine thread never aborts.
C5_NoAbort == pc # "panic"

\* C6: the drain that finds a connection's stream ended empties its queue, removes
\* it from the table and appends one `sunk <name>` to every remaining connection's
\* channel; a submerge it had queued is still applied (the name is pushed to the
\* tick's sunk list); and no step appends a `ship` message for a name that is not in
\* the table.
C6_EofRemoved ==
  [][/\ (pc = "join" /\ pc' = "ships") =>
          \A n \in DOMAIN connections :
            LET c == connections[n].id
            IN  reader[c] = "eof" =>
                  /\ n \notin DOMAIN connections'
                  /\ inbox'[c] = <<>>
                  /\ \A m \in DOMAIN connections' :
                       CountMsg(Appended(connections'[m].id), Msg("sunk", n)) = 1
                  /\ (/\ inbox[c] = <<[kind |-> "Weapon", a |-> 1, b |-> 0]>>
                      /\ connections[n].ship.stats.actions = <<"Submerge">>
                      /\ ~connections[n].ship.submerged)
                       => \E i \in 1..Len(sunk') : sunk'[i] = n
     /\ \A c \in Clients : \A i \in 1..Len(Appended(c)) :
          Appended(c)[i].kind = "ship"
            => Appended(c)[i].name \in DOMAIN connections' \cup {KRAKEN_NAME}]_vars

\* a client that was admitted has ended its stream and is gone from the table,
\* and a remaining connection has been sent the `sunk` of a name no longer there
C6_Witness ==
  /\ \E c \in Clients : reader[c] = "eof" /\ Admitted(c) /\ c \notin Ids
  /\ \E d \in Ids : \E n \in Names \ DOMAIN connections :
       CountMsg(outbox[d], Msg("sunk", n)) = 1

\* C7: a boss spawns only when there is none, and the step in which the boss
\* goes appends exactly one `sunk Kraken` to every connection's channel.
C7_OneBossOneSunk ==
  [][/\ spent'.spawns > spent.spawns => kraken = <<>> /\ kraken' # <<>>
     /\ (kraken # <<>> /\ kraken' = <<>>) =>
          \A n \in DOMAIN connections' :
            CountMsg(Appended(connections'[n].id), Msg("sunk", KRAKEN_NAME)) = 1]_vars

\* the boss has gone while two clients were connected, and each has its message
C7_Witness ==
  /\ kraken = <<>>
  /\ Cardinality(Ids) = 2
  /\ \A c \in Ids : CountMsg(outbox[c], Msg("sunk", KRAKEN_NAME)) = 1

\* C8: once a client is admitted, the first line on its socket is the radius,
\* written before its writer thread exists.
C8_RadiusFirst ==
  \A c \in Clients :
    (Admitted(c) \/ socket[c] # <<>>) =>
      socket[c] # <<>> /\ socket[c][1].msg = Msg("radius", "")

\* a writer thread has written a message after the radius
C8_Witness ==
  \E c \in Clients : Len(socket[c]) = 2 /\ socket[c][2].by = "writer"
                       /\ socket[c][2].msg.kind # "radius"

\* C9: every line on a socket was written by a writer thread.
C9_WriterOnly ==
  \A c \in Clients : \A i \in 1..Len(socket[c]) : socket[c][i].by = "writer"

\* C10: every ship's helm is in [-1, 1] and its power in [-0.5, 1].
C10_InputsInRange ==
  \A ship \in Ships : /\ -Q(1) <= ship.helm /\ ship.helm <= Q(1)
                      /\ -2 <= ship.power /\ ship.power <= Q(1)

\* x is a draw from the reload range of stats
InReload(x, stats) == stats.gun_reload_time[1] <= x /\ x < stats.gun_reload_time[2]

\* C11: a ship's cooldown changes in its own turn only, where it loses delta_t
\* (Ship::step), after having been reset to a draw from the reload range if the
\* ship fired; a ship whose cooldown is above zero does not fire (the boss is
\* left as it was).  The boss's cooldown changes in the boss's turn only, where
\* it loses delta_t and is then reset to a draw from the reload range if the
\* boss fires; a boss whose cooldown is still above zero fires at no ship.
\* (A turn in which the engine aborts does not come to Ship::step.)
C11_NoDoubleFire ==
  [][/\ \A n \in DOMAIN connections \cap DOMAIN connections' :
          LET old == connections[n].ship
              new == connections'[n].ship
              turn == pc = "ships" /\ n \in todo /\ n \notin todo'
              lost == IF pc' = "panic" THEN 0 ELSE delta_t
          IN  connections'[n].id = connections[n].id =>
                IF turn /\ ~old.sunk
                THEN /\ old.stats.cooldown > 0 =>
                          /\ new.stats.cooldown = old.stats.cooldown - lost
                          /\ kraken # <<>> => kraken' = kraken
                     /\ old.stats.cooldown <= 0 =>
                          \/ new.stats.cooldown = old.stats.cooldown - lost
                          \/ kraken # <<>> /\ InReload(new.stats.cooldown + lost, old.stats)
                ELSE (turn /\ old.respawn_cooldown = 0)
                       \/ new.stats.cooldown = old.stats.cooldown
     /\ (kraken # <<>> /\ kraken' # <<>>) =>
          IF pc = "ships" /\ todo = {} /\ pc' # "panic"
          THEN LET k == kraken[1].stats.cooldown - delta_t
               IN  /\ k > 0 => kraken'[1].stats.cooldown = k /\ connections' = connections
                   /\ k <= 0 => InReload(kraken'[1].stats.cooldown, kraken[1].stats)
          ELSE kraken'[1].stats.cooldown = kraken[1].stats.cooldown]_vars

\* the boss that fired in its first tick has held its fire while it reloaded and
\* has now fired again, at a ship that is itself reloading
C11_Witness ==
  /\ spent.spawns = 1 /\ kraken # <<>> /\ ticks > 2 /\ pc = "tick"
  /\ kraken[1].stats.cooldown = kraken[1].stats.gun_reload_time[1]
  /\ \E ship \in Ships : ~ship.sunk /\ ship.stats.cooldown > 0

\* C12: for a ship that is not sunk and every amount, damage(amount) gives a
\* ship that is sunk, with health at most zero, when the amount is at least the
\* health, and a ship that is not sunk when the amount is less; the bool it
\* returns is the sunk flag it leaves.
C12_DamageContract ==
  \A n \in DOMAIN connections :
    LET ship == connections[n].ship
    IN  ~ship.sunk =>
          \A amount \in DamageAmounts(ship) \cup {Hp(1), -Hp(1)} :
            LET hurt == damage(ship, amount)
            IN  /\ amount >= ship.stats.health => hurt.sunk /\ hurt.stats.health <= 0
                /\ amount < ship.stats.health => ~hurt.sunk /\ hurt.stats.health > 0

\* a ship that had taken hits without sinking has been sunk by a hit of exactly
\* its health, and its name has been pushed to the sunk list
C12_Witness ==
  /\ sunk = <<"a">>
  /\ \E ship \in Ships : /\ ship.sunk /\ ship.stats.health = 0
                         /\ ship.submerged /\ get_stats("UBoat").actions = ship.stats.actions

\* C13: a connection is admitted (its reader started, its session queued for
\* the engine) only on a first line `ship <name>`; a connection whose stream is
\* empty, whose first word is another or whose name is missing is dropped and
\* the step that drops it starts no thread and queues nothing; a dropped
\* connection never has a reader, a writer, a queued session or a ship.
C13_ShipLineOrDropped ==
  [][\A c \in Clients :
       LET named == hello[c].st = "sent" /\ hello[c].line.word = "ship" /\ hello[c].line.name # ""
           taken == backlog # <<>> /\ Head(backlog) = c /\ backlog' = Tail(backlog)
       IN  /\ (taken /\ named) =>
                /\ hello'[c].st = "accepted"
                /\ reader'[c] = "running"
                /\ joinq' = Append(joinq, [id |-> c, name |-> hello[c].line.name])
           /\ (taken /\ ~named) =>
                /\ hello'[c].st = "dropped"
                /\ reader' = reader /\ writer' = writer /\ joinq' = joinq
                /\ connections' = connections
           /\ (hello'[c].st = "accepted" /\ hello[c].st # "accepted") => taken /\ named
           /\ hello'[c].st # "accepted" =>
                /\ reader'[c] = "none" /\ writer'[c] = "none"
                /\ \A i \in 1..Len(joinq') : joinq'[i].id # c
                /\ \A n \in DOMAIN connections' : connections'[n].id # c]_vars

\* a connection has been dropped while another one has its ship in the table
C13_Witness ==
  /\ \E c \in Clients : hello[c].st = "dropped"
  /\ \E d \in Ids : hello[d].st = "accepted" /\ reader[d] = "running"

\* the lines of the command set whose fields are all there and numeric
WellFormed(line) ==
  \/ line.word = "sail" /\ Len(line.args) = 2 /\ line.args[1].ok /\ line.args[2].ok
  \/ line.word \in {"anchor", "smoke"}
  \/ line.word = "action" /\ Len(line.args) = 1 /\ line.args[1].ok

\* the command a well-formed line stands for; the index of an action command is
\* carried by ClientMessage::Weapon
Command(line) ==
  IF line.word = "sail" THEN [kind |-> "Sail", a |-> line.args[1].v, b |-> line.args[2].v]
  ELSE IF line.word = "anchor" THEN [kind |-> "Anchor", a |-> 0, b |-> 0]
  ELSE IF line.word = "smoke" THEN [kind |-> "Smoke", a |-> 0, b |-> 0]
  ELSE [kind |-> "Weapon", a |-> line.args[1].v, b |-> 0]

\* C14: a running reader turns every well-formed `sail`, `anchor`, `smoke` and
\* `action` line into its command, and the commands queued for a submersible are
\* applied in arrival order, `action 1` toggling its submersion.
C14_CommandsForwarded ==
  /\ \A c \in Clients : reader[c] = "running" =>
       \A line \in ReaderLines : WellFormed(line) => ParseLine(line) = Command(line)
  /\ \A n \in DOMAIN connections :
       LET ship == connections[n].ship
       IN  ship.stats.actions = <<"Submerge">> =>
             ApplyMessage(ship, [kind |-> "Weapon", a |-> 1, b |-> 0], TRUE).ship.submerged
               = ~ship.submerged

\* C15: the step that sends the ships' states appends, for every connection c
\* and every ship in the table, one `ship` message of that ship to c's channel,
\* except that the message of a ship that is submerged and not sunk is appended
\* to its own connection's channel only; the boss's state goes to every connection.
C15_SubmergedPrivate ==
  [][(pc = "ships" /\ todo = {} /\ pc' # "panic") =>
       \A m \in DOMAIN connections' :
         LET c == connections'[m].id
         IN  /\ \A n \in DOMAIN connections' :
                  LET ship == connections'[n].ship
                  IN  CountMsg(Appended(c), Msg("ship", n)) =
                        IF ship.submerged /\ ~ship.sunk /\ n # m THEN 0 ELSE 1
             /\ CountMsg(Appended(c), Msg("ship", KRAKEN_NAME)) =
                  IF kraken' = <<>> THEN 0 ELSE 1]_vars

\* two clients, one of them submerged and afloat: its state has gone to itself
\* and not to the other, whose own state has gone to both
C15_Witness ==
  \E n \in DOMAIN connections : \E m \in DOMAIN connections \ {n} :
    /\ connections[n].ship.submerged /\ ~connections[n].ship.sunk
    /\ ~connections[m].ship.submerged
    /\ CountMsg(outbox[connections[n].id], Msg("ship", n)) = 1
    /\ CountMsg(outbox[connections[m].id], Msg("ship", n)) = 0
    /\ CountMsg(outbox[connections[n].id], Msg("ship", m)) = 1
    /\ CountMsg(outbox[connections[m].id], Msg("ship", m)) = 1

\* C16: the engine has stopped only if the table of connections is empty, and
\* it begins no further tick with an empty table.
C16_StopsWhenEmpty ==
  /\ pc \in {"done", "panic"} => DOMAIN connections = {}
  /\ pc = "tick" => DOMAIN connections # {}

\* C16, the return of main alone: main returns at the end of a tick exactly when
\* the table is empty then.
C16_ReturnsWhenEmpty ==
  [][(pc = "ships" /\ todo = {} /\ pc' # "panic") =>
       (pc' = "done" <=> DOMAIN connections' = {}) /\ (pc' = "tick" <=> DOMAIN connections' # {})]_vars

\* main.rs:395-396  the least the Ocean border takes in a tick from a ship beyond
\* radius + scale, where scale_factor is at least 1/2
MinLoss == (MAP_RADIUS.dps * delta_t) \div (2 * Sec(1))
Beyond(ship) == distance_from_origin(ship) > MAP_RADIUS.radius + MAP_RADIUS.scale

\* C17: no step raises the health of a ship; the turn of a ship that is afloat
\* and is beyond radius + scale before and after it takes at least MinLoss from
\* its health; the name of a ship that sinks in its turn is on the tick's sunk
\* list, the list is kept until the end of the tick, and the step that ends the
\* tick appends a `sunk` message to every connection's channel for every name on
\* the list and for a ship the boss sinks; and a ship that stays beyond
\* radius + scale is sunk in the end.
C17_OceanSinks ==
  /\ [][/\ \A n \in DOMAIN connections \cap DOMAIN connections' :
             LET old == connections[n].ship
                 new == connections'[n].ship
                 turn == pc = "ships" /\ n \in todo /\ n \notin todo'
             IN  /\ ~(turn /\ old.sunk) => new.stats.health <= old.stats.health
                 /\ (turn /\ ~old.sunk /\ pc' # "panic" /\ Beyond(old) /\ Beyond(new)) =>
                      new.stats.health <= old.stats.health - MinLoss
                 /\ (turn /\ ~old.sunk /\ new.sunk) =>
                      CountMsg(sunk', n) > CountMsg(sunk, n)
                 /\ (~turn /\ ~old.sunk /\ new.sunk) =>
                      \A m \in DOMAIN connections' :
                        CountMsg(Appended(connections'[m].id), Msg("sunk", n)) >= 1
        /\ (pc = "ships" /\ pc' = "ships") => SubSeq(sunk', 1, Len(sunk)) = sunk
        /\ (pc = "ships" /\ pc' \in {"tick", "done"}) =>
             \A i \in 1..Len(sunk) : \A m \in DOMAIN connections' :
               CountMsg(Appended(connections'[m].id), Msg("sunk", sunk[i])) >= 1]_vars
  /\ <>(\A ship \in Ships : Beyond(ship) => ship.sunk)

\* a ship has stayed beyond radius + scale for three ticks or more and has been
\* sunk there by the ocean alone, and its client has been sent the `sunk` message
C17_Witness ==
  /\ ticks >= 4 /\ pc = "tick" /\ spent.spawns = 0 /\ spent.mines = 0
  /\ \E n \in DOMAIN connections :
       /\ connections[n].ship.sunk /\ Beyond(connections[n].ship)
       /\ connections[n].ship.respawn_cooldown = RESPAWN_COOLDOWN
       /\ CountMsg(outbox[connections[n].id], Msg("sunk", n)) = 1

\* C18: a `ship` line the server wrote, read by the client's parser, gives the
\* name, coordinates, angle, velocity and health fraction of the ship it was
\* written from
C18_ShipRoundTrip ==
  \A c \in Clients : \A i \in 1..Len(outbox[c]) :
    LET p == ParseShip(outbox[c][i])
    IN  /\ p.ok
        /\ p.name \in DOMAIN connections
        /\ LET ship == connections[p.name].ship
           IN  /\ p.coords = ship.coords
               /\ p.angle = ship.angle
               /\ p.velocity = ship.velocity
               /\ p.health = HealthFraction(ship)

\* both ships' lines have reached a client, one of a ship under way, off both
\* axes and turned, one of a ship whose health is below 0
C18_Witness ==
  \E c \in Clients : \E i, j \in 1..Len(outbox[c]) :
    LET p == ParseShip(outbox[c][i])
        r == ParseShip(outbox[c][j])
    IN  /\ p.ok /\ p.velocity # 0 /\ p.coords[1] # 0 /\ p.coords[2] # 0 /\ p.angle # 0
        /\ p.health > 0 /\ p.health < 1000
        /\ r.ok /\ r.name # p.name
        /\ connections[r.name].ship.stats.health < 0 /\ r.health = 0

\* C19: a step with the engines stopped leaves a velocity that is finite, no
\* larger in magnitude than before and not of the opposite sign
C19_CoastDecays ==
  [][\A n \in DOMAIN connections :
       LET old == connections[n].ship.velocity
           new == connections'[n].ship.velocity
       IN  /\ new.finite
           /\ new.share <= old.share
           /\ new.sign \in {old.sign, 0}]_vars

\* C20: a boss spawns only in the turn of a ship, while there is no boss and the
\* boss cooldown is <= 0; that ship is not sunk and lies beyond the radius, the
\* boss lies beyond the radius, and the ship is the last name on the target
\* list; the boss spawned in a tick does not leave in that tick for want of a
\* target
C20_SpawnConditions ==
  /\ [][spent'.spawns # spent.spawns =>
          /\ kraken = <<>> /\ kraken' # <<>>
          /\ kraken_cooldown <= 0
          /\ pc = "ships"
          /\ \E n \in todo :
               /\ todo' = todo \ {n}
               /\ ~connections'[n].ship.sunk
               /\ distance_from_origin(connections'[n].ship) > MAP_RADIUS.radius
               /\ kraken_targets' = Append(kraken_targets, n)
          /\ distance_from_origin(kraken'[1]) > MAP_RADIUS.radius]_vars
  /\ [](kraken # <<>> /\ kraken[1].stats.cooldown = 0 => kraken_targets # <<>>)
  /\ [][pc = "ships" /\ todo = {} /\ pc' # "panic" /\ kraken # <<>>
          /\ kraken[1].stats.cooldown = 0 /\ ~kraken[1].sunk
        => kraken' # <<>>]_vars

\* a step that is the boss phase of a tick and does not abort
BossPhase == pc = "ships" /\ todo = {} /\ pc' # "panic" /\ kraken # <<>>

\* C21: in the boss phase a boss that is sunk is removed and the boss cooldown
\* becomes its mass / 50; one that is afloat and has no target is removed and
\* the cooldown becomes (mass - health) / 100; any other boss stays and the
\* cooldown is left as it is
C21_BossRemoval ==
  [][BossPhase =>
       LET k == kraken[1]
       IN  IF k.sunk
           THEN kraken' = <<>> /\ kraken_cooldown' = HpSeconds(current_mass(k), 50)
           ELSE IF kraken_targets = <<>>
           THEN /\ kraken' = <<>>
                /\ kraken_cooldown' = HpSeconds(current_mass(k) - k.stats.health, 100)
           ELSE kraken' # <<>> /\ kraken_cooldown' = kraken_cooldown]_vars

\* a boss that was hit and found no target has left: the cooldown is that of
\* damage short of its mass
C21_Witness ==
  /\ kraken = <<>>
  /\ pc = "tick"
  /\ spent.spawns > 0
  /\ kraken_cooldown > 0
  /\ kraken_cooldown < HpSeconds(Hp(3000), 100)

\* the names on a list
Listed(list) == {list[i] : i \in 1..Len(list)}

\* C22: a ship afloat that the boss has in range is stopped before its step (its
\* velocity after the turn is that of a ship stepping from rest), is put on the
\* target list and is not recentred; a ship out of range keeps its velocity
\* and is not listed; the boss fires only in its own phase, at most once, and
\* only a ship on the target list is struck
C22_BossTargets ==
  /\ [](pc = "ships" /\ kraken # <<>> =>
          \A n \in todo :
            LET ship == connections[n].ship
            IN  ~ship.sunk =>
                  \A c \in KrakenStage(Context(ship, kraken)) :
                    IF c.target
                    THEN ~c.mobile /\ c.ship.velocity = 0
                    ELSE c.mobile /\ c.ship.velocity = ship.velocity)
  /\ [][\A n \in todo :
          /\ pc = "ships" /\ pc' = "ships" /\ todo' = todo \ {n}
          /\ kraken # <<>> /\ ~connections[n].ship.sunk
          /\ spent'.mines = spent.mines
          => LET old == connections[n].ship
                 new == connections'[n].ship
             IN  IF kraken_targets' = Append(kraken_targets, n)
                 THEN /\ new.velocity \in StepVelocities([old EXCEPT !.velocity = 0])
                      /\ new.velocity = 0 => new.coords = old.coords
                 ELSE /\ kraken_targets' = kraken_targets
                      /\ new.velocity \in StepVelocities(old)]_vars
  /\ [][kraken # <<>> /\ kraken' # <<>> =>
          IF BossPhase
          THEN LET struck == {n \in DOMAIN connections : connections'[n] # connections[n]}
               IN  /\ DOMAIN connections' = DOMAIN connections
                   /\ Cardinality(struck) <= 1
                   /\ struck \subseteq Listed(kraken_targets)
                   /\ kraken'[1].stats.cooldown \in
                        {kraken[1].stats.cooldown - delta_t} \cup ReloadDraws(kraken[1].stats)
                   /\ struck # {} => kraken'[1].stats.cooldown \in ReloadDraws(kraken[1].stats)
          ELSE kraken'[1].stats.cooldown = kraken[1].stats.cooldown]_vars

\* the boss of a world of two ships has just fired: it is reloading, one ship
\* took its shell, the other is whole
C22_Witness ==
  /\ pc = "tick"
  /\ kraken # <<>>
  /\ kraken[1].stats.cooldown \in ReloadDraws(kraken[1].stats)
  /\ \E n, m \in DOMAIN connections :
       /\ n # m
       /\ connections[n].ship.stats.health
            <= connections[n].ship.stats.mass[1] - kraken[1].stats.gun_damage
       /\ connections[m].ship.stats.health = connections[m].ship.stats.mass[1]
       /\ ~connections[m].ship.sunk

\* the last Sail command of a queue, <<>> if it has none
LastSail(msgs) ==
  LET sails == SelectSeq(msgs, LAMBDA m : m.kind = "Sail")
  IN  IF sails = <<>> THEN <<>> ELSE <<sails[Len(sails)]>>

\* what a completed drain leaves: every connection's queue is empty, a ship has
\* the power and helm of the last sail command queued for it, and the table
\* has lost exactly the disconnected before any ship takes its turn
Drained ==
  /\ \A n \in DOMAIN connections :
       LET c == connections[n].id
           last == LastSail(inbox[c])
       IN  /\ inbox'[c] = <<>>
           /\ n \in DOMAIN connections' /\ last # <<>> =>
                /\ connections'[n].ship.power = Quot(last[1].a * Abs(last[1].a), Q(1))
                /\ connections'[n].ship.helm = last[1].b
           /\ n \in DOMAIN connections' /\ last = <<>> =>
                /\ connections'[n].ship.power = connections[n].ship.power
                /\ connections'[n].ship.helm = connections[n].ship.helm
  /\ DOMAIN connections' =
       {n \in DOMAIN connections : ~Disconnected(connections[n].id)}
  /\ todo' = DOMAIN connections'

\* C23: the drain of a tick empties every connection's queue in order and
\* removes the disconnected before the ships' turns
C23_DrainAll ==
  [][pc = "join" /\ pc' # "join" => pc' = "ships" /\ Drained]_vars

\* a drain that runs to its end does so
C23_DrainAllUnlessAbort ==
  [][pc = "join" /\ pc' = "ships" => Drained]_vars

\* C24: a session on the join queue is in the end taken from it by the engine,
\* which makes its outbound channel and writer
C24_QueuedAdmitted ==
  \A c \in Clients : (c \in Queued) ~> (c \notin Queued /\ writer[c] # "none")

\* C25: when the engine takes from the join queue a session whose name is in
\* the table, the table, with the session and ship under that name, stays as it
\* is and the newcomer is given no entry; the ids in the table are one per name
C25_NamesUnique ==
  /\ [][joinq # <<>> /\ joinq' = Tail(joinq) /\ Head(joinq).name \in DOMAIN connections =>
          /\ connections' = connections
          /\ Head(joinq).id \notin {connections'[n].id : n \in DOMAIN connections'}]_vars
  /\ [](\A n, m \in DOMAIN connections : connections[n].id = connections[m].id => n = m)

\* a second client asked for the name of the first and was turned away: its
\* writer was started and has ended, its reader runs on
C25_Witness ==
  /\ "a" \in DOMAIN connections
  /\ connections["a"].id = 1
  /\ hello[2].st = "accepted"
  /\ 2 \notin Ids \cup Queued
  /\ writer[2] = "ended"
  /\ DOMAIN connections = {"a"}
  /\ reader[1] = "running"

\* C26: a call of shoot is NotFired and changes neither ship, or it resets the
\* attacker's cooldown and is a Miss that leaves the target's health and sunk
\* flag alone, or a Hit or Sunk that takes the rolled damage from the target's
\* health, Sunk exactly if that leaves no health
C26_ShootOutcomes ==
  \A n, m \in DOMAIN connections :
  \A hit \in BOOLEAN, roll \in GunRolls, reload \in ReloadDraws(connections[n].ship.stats) :
    LET attacker == connections[n].ship
        target == connections[m].ship
        r == shoot(attacker, target, hit, roll, reload)
        dmg == (attacker.stats.gun_damage * roll[1]) \div roll[2]
    IN  n # m =>
          /\ r.state \in {"NotFired", "Miss", "Hit", "Sunk"}
          /\ r.state = "NotFired" => r.attacker = attacker /\ r.target = target
          /\ r.state # "NotFired" => r.attacker = [attacker EXCEPT !.stats.cooldown = reload]
          /\ r.state = "Miss" =>
               /\ r.target.stats.health = target.stats.health
               /\ r.target.sunk = target.sunk
          /\ r.state \in {"Hit", "Sunk"} =>
               /\ r.target.stats.health = target.stats.health - dmg
               /\ r.state = "Sunk" <=> r.target.stats.health <= 0

\* a submarine's shell has taken the last of b's health: b is sunk on exactly
\* no health and a reloads
C26_Witness ==
  /\ sunk = <<"b">>
  /\ connections["b"].ship.sunk
  /\ connections["b"].ship.stats.health = 0
  /\ connections["a"].ship.stats.cooldown \in ReloadDraws(connections["a"].ship.stats)

\* C27: the turn in which a ship afloat sinks puts its name on the tick's sunk
\* list once, a turn in which it stays afloat not at all; and the step that
\* ends the tick sends every connection, for each ship, as many `sunk` messages
\* as its name is on the list, and one more if the boss's shot sinks it
C27_SunkOnce ==
  [][/\ \A n \in DOMAIN connections \cap DOMAIN connections' :
          (pc = "ships" /\ n \in todo /\ n \notin todo' /\ ~connections[n].ship.sunk) =>
            CountMsg(sunk', n) - CountMsg(sunk, n)
              = IF connections'[n].ship.sunk THEN 1 ELSE 0
     /\ (pc = "ships" /\ pc' \in {"tick", "done"}) =>
          \A n \in DOMAIN connections : \A m \in DOMAIN connections' :
            CountMsg(Appended(connections'[m].id), Msg("sunk", n))
              = CountMsg(sunk, n)
                  + IF ~connections[n].ship.sunk /\ connections'[n].ship.sunk THEN 1 ELSE 0]_vars

\* C28: a client that has sent a first line `ship <name>` is accepted in the
\* end (its reader started, its session queued), whatever the clients that
\* connected before it do
C28_SilentNoBlock ==
  \A d \in Clients :
    (hello[d].st = "sent" /\ HelloName(hello[d]) # "") ~> (hello[d].st = "accepted")


\* C29: the target list holds only keys of the connection table: the drain
\* empties it and leaves turns to the connections it kept, a turn lists only
\* the ship whose turn it is, and nothing leaves the table between the drain
\* and the boss's turn; so whatever target the boss picks, its lookup succeeds
C29_TargetsAreKeys ==
  /\ [](Listed(kraken_targets) \subseteq DOMAIN connections)
  /\ [](pc = "ships" /\ todo = {} => \A o \in KrakenTurn : ~o.panic)
  /\ [][pc = "join" /\ pc' = "ships" =>
          /\ kraken_targets' = <<>>
          /\ todo' = DOMAIN connections'
          /\ \A n \in DOMAIN connections : Disconnected(connections[n].id) => n \notin todo']_vars
  /\ [][pc = "ships" /\ pc' = "ships" =>
          /\ DOMAIN connections' = DOMAIN connections
          /\ Listed(kraken_targets') \ Listed(kraken_targets) \subseteq todo \ todo']_vars

\* the ship loop of a tick whose drain removed a connection is over, the boss
\* is afloat and has a ship on its list: it is about to fire
C29_Witness ==
  /\ pc = "ships"
  /\ todo = {}
  /\ kraken # <<>>
  /\ ~kraken[1].sunk
  /\ kraken_targets # <<>>
  /\ \E c \in Ids, gone \in Names \ DOMAIN connections :
       /\ outbox[c] # <<>>
       /\ outbox[c][Len(outbox[c])] = Msg("sunk", gone)


\* C30: a step that sends a client `sunk Kraken` leaves no boss and sends that
\* client no `ship Kraken`; a step that sends `ship Kraken` leaves a boss; and
\* a boss comes to be only by a spawn in a ship's turn.  So from the broadcast
\* of `sunk Kraken` on, in that tick and after, no state of the boss is sent
\* until a boss spawns.
C30_NoBossStateAfterSunk ==
  [][/\ \A c \in Clients :
          /\ CountMsg(Appended(c), Msg("sunk", KRAKEN_NAME)) > 0 =>
               /\ kraken' = <<>>
               /\ CountMsg(Appended(c), Msg("ship", KRAKEN_NAME)) = 0
          /\ CountMsg(Appended(c), Msg("ship", KRAKEN_NAME)) > 0 => kraken' # <<>>
     /\ (kraken = <<>> /\ kraken' # <<>>) =>
          /\ pc = "ships" /\ todo' # todo
          /\ spent'.spawns = spent.spawns + 1]_vars

\* the first boss is gone, `sunk Kraken` was sent in an earlier tick, no boss
\* has spawned since, and the tick just ended sent the client its own ship's
\* state and none of the boss
C30_Witness ==
  /\ pc = "tick"
  /\ kraken = <<>>
  /\ spent.spawns = 1
  /\ \E c \in Ids :
       /\ CountMsg(outbox[c], Msg("sunk", KRAKEN_NAME)) = 0
       /\ CountMsg(outbox[c], Msg("ship", KRAKEN_NAME)) = 0
       /\ \E n \in DOMAIN connections : CountMsg(outbox[c], Msg("ship", n)) = 1


\* C31: the health of a player's ship goes down only in its own turn, once the
\* ship is beyond the border (the border's damage, a mine), or in the boss's
\* phase, when the boss fires and the ship is on its target list; it changes
\* otherwise only when the wreck is replaced by a new ship.  A ship's turn
\* leaves every other player's ship as it was, and a ship that finds no boss
\* does not fire.
C31_NoFriendlyFire ==
  [][\A n \in DOMAIN connections \cap DOMAIN connections' :
       LET old == connections[n].ship
           new == connections'[n].ship
           turn == pc = "ships" /\ n \in todo /\ n \notin todo'
       IN  connections'[n].id = connections[n].id =>
             /\ new.stats.health # old.stats.health =>
                  IF turn /\ old.sunk
                  THEN /\ old.respawn_cooldown = 0
                       /\ ~new.sunk
                       /\ new.stats.health = new.stats.mass[1]
                  ELSE /\ new.stats.health < old.stats.health
                       /\ \/ turn /\ distance_from_origin(new) > MAP_RADIUS.radius
                          \/ /\ BossPhase
                             /\ n \in Listed(kraken_targets)
                             /\ kraken' # <<>>
                             /\ kraken'[1].stats.cooldown \in ReloadDraws(kraken[1].stats)
             /\ turn =>
                  /\ \A m \in DOMAIN connections \ {n} :
                       m \in DOMAIN connections' /\ connections'[m] = connections[m]
                  /\ (~old.sunk /\ kraken = <<>> /\ pc' # "panic") =>
                       new.stats.cooldown = old.stats.cooldown - delta_t]_vars

\* two ships and the boss: one ship has fired and is reloading, the boss has
\* taken its shell, and the other ship is afloat with its full health
C31_Witness ==
  /\ kraken # <<>>
  /\ kraken[1].stats.health < kraken[1].stats.mass[1]
  /\ \E n, m \in DOMAIN connections :
       /\ n # m
       /\ ~connections[n].ship.sunk
       /\ connections[n].ship.stats.cooldown > 0
       /\ ~connections[m].ship.sunk
       /\ connections[m].ship.stats.health = connections[m].ship.stats.mass[1]


\* C32: a player's ship that is submerged is of a class whose action list holds
\* Submerge, and the boss is never submerged; a ship enters the table surfaced;
\* the flag of a ship changes only in the drain, when the connection's queue
\* holds an action whose index is within the ship's action list, or when the
\* wreck is replaced by a new ship, which is surfaced
C32_SubmergedOnlySubmersible ==
  /\ [](\A ship \in Ships :
          /\ ship.stats.actions = get_stats(ship.stats.class).actions
          /\ ship.submerged => \E i \in 1..Len(ship.stats.actions) :
                                 ship.stats.actions[i] = "Submerge")
  /\ [](kraken # <<>> => ~kraken[1].submerged)
  /\ [][\A n \in DOMAIN connections' :
          LET new == connections'[n].ship
          IN  IF n \notin DOMAIN connections \/ connections'[n].id # connections[n].id
              THEN ~new.submerged
              ELSE LET old == connections[n].ship
                       queue == inbox[connections[n].id]
                   IN  new.submerged # old.submerged =>
                         \/ /\ pc = "join" /\ pc' = "ships"
                            /\ \E i \in 1..Len(queue) :
                                 /\ queue[i].kind = "Weapon"
                                 /\ queue[i].a \in 1..Len(old.stats.actions)
                         \/ /\ pc = "ships" /\ n \in todo /\ n \notin todo'
                            /\ old.sunk /\ old.respawn_cooldown = 0
                            /\ ~new.submerged]_vars

\* a submarine has dived, a battlecruiser sails on the surface beside it, and
\* the boss is there, on the surface
C32_Witness ==
  /\ kraken # <<>>
  /\ ~kraken[1].submerged
  /\ \E n, m \in DOMAIN connections :
       /\ connections[n].ship.submerged
       /\ connections[n].ship.stats.class = "UBoat"
       /\ connections[m].ship.stats.class = "BattleCruiser"
       /\ ~connections[m].ship.submerged

====
